---- MODULE Spec2Model ----
(***************************************************************************)
(* Review-job pipeline: the work queue (src/work_queue.py), the job         *)
(* dispatch gate (src/job_dispatch.py), the notification outbox            *)
(* (src/notification_outbox.py), the failure pipeline                      *)
(* (src/failure_pipeline.py) and the ingest chain (src/change_ingest.py)   *)
(* as state machines over their tables.                                    *)
(*                                                                         *)
(* Conventions.                                                            *)
(*  - A table is a sequence of rows; a row's id is its index (INTEGER      *)
(*    PRIMARY KEY AUTOINCREMENT, no row is ever deleted).                  *)
(*  - A nullable column holds a set with at most one element: NULL is {}.  *)
(*    "col IS NOT NULL AND col <= now()" is \E t \in col : t <= now.       *)
(*  - now() has one-second resolution and never goes back; it is the       *)
(*    variable now, advanced by Tick.  A store call reads it once.         *)
(*  - A work-queue call is one step: its UPDATE, its commit and the reads  *)
(*    that build its diagnostics.  submit_job is three steps, one for each *)
(*    of its statements, since nothing holds them in one transaction.      *)
(*    deliver_row and deliver_pending are a step for each statement and   *)
(*    each provider call; a failure-pipeline call is one step.             *)
(*  - updated_at is not modelled: no guard reads it.  A work-queue payload *)
(*    is the set of dispatch job ids it names; an outbox payload, error    *)
(*    messages and metadata are not modelled.                              *)
(***************************************************************************)
EXTENDS Integers, Sequences, FiniteSets, TLC

\* ------------------------------------------------------------------ bounds
MaxJobs == 2
MaxTime == 1
MaxVersion == 2
MaxActiveRunning == 1
MaxLease == 4
MaxMono == 2
MaxSteps == 2
MaxIterations == 2
MaxDigit == 2

Workers == {"w1", "w2"}
Priorities == {0, 1}
LeaseDurations == {1}
NULL == {}

VARIABLES
  wq,      \* table work_queue
  now,     \* the clock behind now()
  last,    \* what the most recent work-queue call returned
  race,    \* the claim_next calls issued back to back at one clock reading
  jobs,    \* table jobs
  proc,    \* each submit_job caller: position, arguments, locals, result
  outbox,  \* table notification_outbox
  provider,\* the notification provider: its messages and the ids it knows
  dl,      \* each deliver_row / deliver_pending caller: position and locals
  prev,    \* what the most recent deliver_pending call returned
  runs,    \* table pipeline_runs
  dead,    \* table dead_letter_entries
  fres,    \* what the most recent failure-pipeline call did
  ing,     \* each ingest_change caller: position, arguments, result
  rt,      \* the process_running_job call: position, locals, events
  sw,      \* the run_sweeper_loop call: position, locals, events, sleeps
  pair,    \* a sweep and a claim_next issued together: what each got
  vr,      \* a validate_and_reconcile_review_result call: input and outcome
  lapse    \* an owner whose lease has run out: what happened to its row since

wqVars == <<wq, now, last, race>>
jdVars == <<jobs, proc>>
obVars == <<outbox, provider, dl, prev>>
fpVars == <<runs, dead, fres>>
loopVars == <<rt, sw, pair, lapse>>
vars == <<wq, now, last, race, jobs, proc, outbox, provider, dl, prev,
          runs, dead, fres, ing, rt, sw, pair, vr, lapse>>
\* What a call of each component leaves alone.
othersWQ == <<jdVars, obVars, fpVars, ing, loopVars, vr>>
othersJD == <<wqVars, obVars, fpVars, ing, loopVars, vr>>
othersOB == <<wqVars, jdVars, fpVars, ing, loopVars, vr>>
othersFP == <<wqVars, jdVars, obVars, ing, loopVars, vr>>
\* What a loop around work-queue calls leaves alone besides its own frame.
othersLoop == <<jdVars, obVars, fpVars, ing, vr, lapse>>
\* What the calls of an owner past its lease leave alone.
othersLapse == <<jdVars, obVars, fpVars, ing, vr, rt, sw, pair>>

\* ------------------------------------------------------------ work queue

JobIds == 1..MaxJobs
Caps == {NULL, {1}}
RunAtInputs == {NULL, {MaxTime}}

Exists(rows, j) == j \in 1..Len(rows)

\* SELECT status / claimed_by FROM work_queue WHERE id = ?  (None when no row)
GetStatus(rows, j) == IF Exists(rows, j) THEN rows[j].status ELSE "none"
GetOwner(rows, j) == IF Exists(rows, j) THEN rows[j].claimed_by ELSE NULL

\* Mutant: no reclaiming UPDATE.
NoReclaim(rows, t) == rows

\* Mutant: the expiry test with < in place of <=.
ExpiredStrictly(r, t) == r.status = "running" /\ \E l \in r.lease_expires_at : l < t

\* WHERE status = 'running' AND lease_expires_at IS NOT NULL AND lease_expires_at <= now()
Expired(r, t) == r.status = "running" /\ \E l \in r.lease_expires_at : l <= t

\* WHERE status = 'running' AND lease_expires_at IS NOT NULL AND lease_expires_at > now()
Active(r, t) == r.status = "running" /\ \E l \in r.lease_expires_at : l > t

\* The reclaiming UPDATE shared by claim_next and requeue_expired_running.
RequeueRows(rows, t) ==
  [j \in 1..Len(rows) |->
     IF Expired(rows[j], t)
     THEN [rows[j] EXCEPT !.status = "queued", !.claimed_by = NULL,
                          !.lease_expires_at = NULL]
     ELSE rows[j]]

ExpiredIds(rows, t) == {j \in 1..Len(rows) : Expired(rows[j], t)}

\* The result record of a call; fields a call does not produce keep these
\* (a diagnostics key that is absent is NULL).
NoResult ==
  [op |-> "none", job |-> 0, worker |-> "", cap |-> NULL, ok |-> TRUE,
   rows |-> 0, code |-> "ok", from |-> "none", to |-> "none",
   owner |-> NULL, ret |-> 0, allowed_from |-> NULL, required_from |-> NULL,
   required_status |-> NULL]

\* "allowed_from": ["queued"] in the diagnostics of a refused claim
AllowedFrom == {"queued"}

\* Mutant: the refused finalization naming queued as the required status.
RequiredFromQueued == {"queued"}

\* "required_from": "running" in the diagnostics of a refused finalization
RequiredFrom == {"running"}

\* "required_status": "running" in the diagnostics of a refused heartbeat
RequiredStatus == {"running"}

NoRace == [runnable |-> {}, got |-> [w \in Workers |-> -1]]

NewRow(p, r, t) ==
  [status |-> "queued", priority |-> p, run_at |-> r, claimed_by |-> NULL,
   lease_expires_at |-> NULL, started_at |-> NULL, created_at |-> t,
   payload |-> NULL]

\* enqueue(payload, priority, run_at): run_at or now()
Enqueue(p, r) ==
  /\ Len(wq) < MaxJobs
  /\ LET scheduled == IF r = NULL THEN now ELSE CHOOSE t \in r : TRUE
     IN  wq' = Append(wq, NewRow(p, scheduled, now))
  /\ last' = [NoResult EXCEPT !.op = "enqueue", !.ret = Len(wq) + 1]
  /\ race' = NoRace
  /\ UNCHANGED <<now, othersWQ>>

\* SELECT COUNT(*) ... WHERE status = 'running' AND lease_expires_at > now()
ActiveRunning(rows, t) == Cardinality({j \in 1..Len(rows) : Active(rows[j], t)})

\* Mutant: the capacity test with <= in place of <.
EligibleAtCap(rows, t, cap) ==
  {j \in 1..Len(rows) :
     /\ rows[j].status = "queued"
     /\ rows[j].run_at <= t
     /\ (cap = NULL \/ \E c \in cap : ActiveRunning(rows, t) <= c)}

\* Mutant: the candidate filter without status = 'queued'.
EligibleAnyStatus(rows, t, cap) ==
  {j \in 1..Len(rows) :
     /\ rows[j].run_at <= t
     /\ (cap = NULL \/ \E c \in cap : ActiveRunning(rows, t) < c)}

\* WHERE status = 'queued' AND run_at <= now()
\*   AND (? IS NULL OR (SELECT active_running FROM active_capacity) < ?)
Eligible(rows, t, cap) ==
  {j \in 1..Len(rows) :
     /\ rows[j].status = "queued"
     /\ rows[j].run_at <= t
     /\ (cap = NULL \/ \E c \in cap : ActiveRunning(rows, t) < c)}

\* Mutant: ORDER BY created_at ASC alone.
SortsBeforeAgeOnly(a, b) == a.created_at < b.created_at

\* ORDER BY priority DESC, created_at ASC: a sorts strictly before b.
SortsBefore(a, b) ==
  \/ a.priority > b.priority
  \/ a.priority = b.priority /\ a.created_at < b.created_at

\* ORDER BY ... LIMIT 1 over the rowid-order table scan.  SQLite sorts the
\* scanned rows stably (the temp b-tree key carries the scan sequence), so of
\* the rows equal on both keys the first scanned, the lowest id, comes first.
\* NULL (no candidate) or {id}.
Candidate(rows, t, cap) ==
  {j \in Eligible(rows, t, cap) :
     \A k \in Eligible(rows, t, cap) :
        /\ ~SortsBefore(rows[k], rows[j])
        /\ (k < j => SortsBefore(rows[j], rows[k]))}

\* Mutant: the claiming UPDATE without claimed_by = ?.
ClaimNextUpdateNoOwner(r, w, d, t) ==
  [r EXCEPT !.status = "running", !.lease_expires_at = {t + d},
            !.started_at = {t}]

\* SET status = 'running', claimed_by = ?, lease_expires_at = now() + ?,
\*     started_at = now()
ClaimNextUpdate(r, w, d, t) ==
  [r EXCEPT !.status = "running", !.claimed_by = {w},
            !.lease_expires_at = {t + d}, !.started_at = {t}]

\* The tally of a claim race, as the concurrency test keeps it: the rows
\* runnable when the first caller ran, and what each caller got
\* (-1 not called, 0 empty, else the row id).
RaceAfter(w, ret, reclaimed) ==
  LET fresh == race.got[w] # -1 \/ \A v \in Workers : race.got[v] = -1
      base == IF fresh
              THEN [runnable |-> Eligible(reclaimed, now, NULL),
                    got |-> [v \in Workers |-> -1]]
              ELSE race
  IN  [base EXCEPT !.got[w] = ret]

\* claim_next(worker_id, lease_duration_seconds, max_active_running): one
\* BEGIN IMMEDIATE transaction, so one step.  What the call does to the
\* work queue, whoever makes it.
ClaimNextCall(w, d, cap) ==
  LET reclaimed == RequeueRows(wq, now)
      cand == Candidate(reclaimed, now, cap)
      ret == IF cand = NULL THEN 0 ELSE CHOOSE j \in cand : TRUE
  IN  /\ wq' = IF ret = 0 THEN reclaimed
               ELSE [reclaimed EXCEPT ![ret] = ClaimNextUpdate(reclaimed[ret], w, d, now)]
      /\ last' = [NoResult EXCEPT !.op = "claim_next", !.worker = w,
                                  !.cap = cap, !.ret = ret,
                                  !.from = IF ret = 0 THEN "none" ELSE wq[ret].status]
      /\ race' = IF cap = NULL THEN RaceAfter(w, ret, reclaimed) ELSE NoRace
      /\ UNCHANGED now

ClaimNext(w, d, cap) == ClaimNextCall(w, d, cap) /\ UNCHANGED othersWQ

\* requeue_expired_running(): what the call does to the work queue.
RequeueCall ==
  /\ wq' = RequeueRows(wq, now)
  /\ last' = [NoResult EXCEPT !.op = "requeue_expired_running",
                              !.rows = Cardinality(ExpiredIds(wq, now))]
  /\ race' = NoRace
  /\ UNCHANGED now

RequeueExpiredRunning == RequeueCall /\ UNCHANGED othersWQ

\* SET status = 'running', claimed_by = ?  (the directed claim's UPDATE)
ClaimUpdate(r, w) == [r EXCEPT !.status = "running", !.claimed_by = {w}]

\* Mutant: the directed claim refusing only rows that are running.
QueuedOrFinal(rows, j) == Exists(rows, j) /\ rows[j].status # "running"

\* WHERE id = ? AND status = 'queued'
Queued(rows, j) == Exists(rows, j) /\ rows[j].status = "queued"

\* claim(job_id, worker_id)
Claim(j, w) ==
  LET hit == Queued(wq, j)
  IN  /\ wq' = IF hit THEN [wq EXCEPT ![j] = ClaimUpdate(wq[j], w)] ELSE wq
      /\ last' = IF hit
                 THEN [NoResult EXCEPT !.op = "claim", !.job = j, !.worker = w,
                                       !.rows = 1]
                 ELSE [NoResult EXCEPT !.op = "claim", !.job = j, !.worker = w,
                                       !.ok = FALSE, !.code = "invalid_transition",
                                       !.from = GetStatus(wq, j), !.to = "running",
                                       !.allowed_from = AllowedFrom]
      /\ race' = NoRace
      /\ UNCHANGED <<now, othersWQ>>

\* Mutant: the owner-scoped WHERE clause without claimed_by = ?.
AnyRunning(rows, j, w) == Exists(rows, j) /\ rows[j].status = "running"

\* Mutant: the owner-scoped WHERE clause asking for a lease that still runs.
OwnedRunningUnexpired(rows, j, w) ==
  /\ Exists(rows, j) /\ rows[j].claimed_by = {w} /\ rows[j].status = "running"
  /\ ~Expired(rows[j], now)

\* WHERE id = ? AND claimed_by = ? AND status = 'running'
OwnedRunning(rows, j, w) ==
  Exists(rows, j) /\ rows[j].claimed_by = {w} /\ rows[j].status = "running"

\* Mutant: the reason without the "owner is not None" test.
GuardReasonNoNullTest(owner, w) ==
  IF owner # {w} THEN "not_owner" ELSE "invalid_transition"

\* reason = "not_owner" if owner is not None and owner != worker_id
\*          else "invalid_transition"
GuardReason(owner, w) ==
  IF owner # NULL /\ owner # {w} THEN "not_owner" ELSE "invalid_transition"

\* _owner_guard_result(rows, job_id, worker_id, action)
OwnerGuardResult(hit, rows, j, w, action) ==
  IF hit
  THEN [NoResult EXCEPT !.op = action, !.job = j, !.worker = w, !.rows = 1]
  ELSE [NoResult EXCEPT !.op = action, !.job = j, !.worker = w, !.ok = FALSE,
                        !.code = GuardReason(GetOwner(rows, j), w),
                        !.owner = GetOwner(rows, j),
                        !.from = GetStatus(rows, j),
                        !.required_status = RequiredStatus]

\* heartbeat(job_id, worker_id, lease_duration_seconds): what the call does
\* to the work queue.
HeartbeatCall(j, w, d) ==
  LET hit == OwnedRunning(wq, j, w)
  IN  /\ wq' = IF hit THEN [wq EXCEPT ![j].lease_expires_at = {now + d}] ELSE wq
      /\ last' = OwnerGuardResult(hit, wq', j, w, "heartbeat")
      /\ race' = NoRace
      /\ UNCHANGED now

Heartbeat(j, w, d) == HeartbeatCall(j, w, d) /\ UNCHANGED othersWQ

\* SET status = ?, claimed_by = NULL, lease_expires_at = NULL
FinalizeUpdate(r, target) ==
  [r EXCEPT !.status = target, !.claimed_by = NULL, !.lease_expires_at = NULL]

\* _finalize(job_id, worker_id, target_status), reached through complete
\* ("completed") and fail ("failed"): what the call does to the work queue.
FinalizeCall(j, w, target) ==
  LET hit == OwnedRunning(wq, j, w)
      op == IF target = "completed" THEN "complete" ELSE "fail"
  IN  /\ wq' = IF hit THEN [wq EXCEPT ![j] = FinalizeUpdate(wq[j], target)] ELSE wq
      /\ last' = IF hit
                 THEN [NoResult EXCEPT !.op = op, !.job = j, !.worker = w,
                                       !.rows = 1, !.to = target]
                 ELSE [NoResult EXCEPT !.op = op, !.job = j, !.worker = w,
                                       !.ok = FALSE,
                                       !.code = GuardReason(GetOwner(wq', j), w),
                                       !.owner = GetOwner(wq', j),
                                       !.from = GetStatus(wq', j), !.to = target,
                                       !.required_from = RequiredFrom]
      /\ race' = NoRace
      /\ UNCHANGED now

Finalize(j, w, target) == FinalizeCall(j, w, target) /\ UNCHANGED othersWQ

Complete(j, w) == Finalize(j, w, "completed")

Fail(j, w) == Finalize(j, w, "failed")

InitWQ ==
  /\ wq = <<>>
  /\ now = 0
  /\ last = NoResult
  /\ race = NoRace

\* The clock behind now() moves on; a result is read before it does.
Tick ==
  /\ now < MaxTime
  /\ now' = now + 1
  /\ last' = NoResult
  /\ race' = NoRace
  /\ UNCHANGED <<wq, othersWQ>>

NextWQ ==
  \/ \E p \in Priorities, r \in RunAtInputs : Enqueue(p, r)
  \/ \E w \in Workers, d \in LeaseDurations, cap \in Caps : ClaimNext(w, d, cap)
  \/ RequeueExpiredRunning
  \/ \E j \in JobIds, w \in Workers : Claim(j, w)
  \/ \E j \in JobIds, w \in Workers, d \in LeaseDurations : Heartbeat(j, w, d)
  \/ \E j \in JobIds, w \in Workers : Complete(j, w)
  \/ \E j \in JobIds, w \in Workers : Fail(j, w)
  \/ Tick

\* Every claimer goes through claim_next with the same max_active_running;
\* no directed claim.
NextWQCap ==
  \/ \E p \in Priorities, r \in RunAtInputs : Enqueue(p, r)
  \/ \E w \in Workers, d \in LeaseDurations : ClaimNext(w, d, {MaxActiveRunning})
  \/ RequeueExpiredRunning
  \/ \E j \in JobIds, w \in Workers, d \in LeaseDurations : Heartbeat(j, w, d)
  \/ \E j \in JobIds, w \in Workers : Complete(j, w)
  \/ \E j \in JobIds, w \in Workers : Fail(j, w)
  \/ Tick

\* An owner that stops: no heartbeat, complete or fail.  The sweeper loop
\* (iterations unset) sweeps forever and the clock runs on; the clock of the
\* model stops at MaxTime, so a lease is granted only if it ends by then.
NextWQLive ==
  \/ \E p \in Priorities, r \in RunAtInputs : Enqueue(p, r)
  \/ \E w \in Workers, d \in LeaseDurations :
        now + d <= MaxTime /\ ClaimNext(w, d, NULL)
  \/ \E j \in JobIds, w \in Workers : Claim(j, w)
  \/ RequeueExpiredRunning
  \/ Tick

\* An owner past its lease.  The frame follows one running row from the
\* moment its lease is found expired: whether a reclaim has taken the row
\* since, whether the owner has claimed it again since, and (late, kept from
\* one row to the next) whether a call of an owner past its lease went through.
IdleLapse ==
  [pc |-> "idle", job |-> 0, owner |-> "", reclaimed |-> FALSE,
   again |-> FALSE, late |-> FALSE]

InitLapse == lapse = IdleLapse

\* The lease of row j, owned by w, has run out.
LapseBegin(j, w) ==
  /\ lapse.pc = "idle"
  /\ Exists(wq, j) /\ wq[j].claimed_by = {w}
  /\ Expired(wq[j], now)
  /\ lapse' = [IdleLapse EXCEPT !.pc = "lapsed", !.job = j, !.owner = w,
                                !.late = lapse.late]
  /\ UNCHANGED <<wqVars, othersLapse>>

\* requeue_expired_running() while the row is followed
LapseSweep ==
  /\ lapse.pc = "lapsed"
  /\ RequeueCall
  /\ lapse' = [lapse EXCEPT
                 !.reclaimed = @ \/ lapse.job \in ExpiredIds(wq, now),
                 !.again = @ /\ lapse.job \notin ExpiredIds(wq, now)]
  /\ UNCHANGED othersLapse

\* claim_next by any worker while the row is followed
LapseClaimNext(w, d) ==
  /\ lapse.pc = "lapsed"
  /\ ClaimNextCall(w, d, NULL)
  /\ lapse' = [lapse EXCEPT
                 !.reclaimed = @ \/ lapse.job \in ExpiredIds(wq, now),
                 !.again = IF w = lapse.owner /\ last'.ret = lapse.job THEN TRUE
                           ELSE @ /\ lapse.job \notin ExpiredIds(wq, now)]
  /\ UNCHANGED othersLapse

LapseAfterCall ==
  [lapse EXCEPT !.pc = "done",
                !.late = @ \/ (last'.ok /\ ~lapse.reclaimed)]

\* heartbeat, complete and fail by the owner the frame follows
LapseHeartbeat(d) ==
  /\ lapse.pc = "lapsed"
  /\ HeartbeatCall(lapse.job, lapse.owner, d)
  /\ lapse' = LapseAfterCall
  /\ UNCHANGED othersLapse

LapseComplete ==
  /\ lapse.pc = "lapsed"
  /\ FinalizeCall(lapse.job, lapse.owner, "completed")
  /\ lapse' = LapseAfterCall
  /\ UNCHANGED othersLapse

LapseFail ==
  /\ lapse.pc = "lapsed"
  /\ FinalizeCall(lapse.job, lapse.owner, "failed")
  /\ lapse' = LapseAfterCall
  /\ UNCHANGED othersLapse

LapseEnd ==
  /\ lapse.pc = "done"
  /\ lapse' = [IdleLapse EXCEPT !.late = lapse.late]
  /\ UNCHANGED <<wqVars, othersLapse>>

\* Workers claim through claim_next; once a lease has run out its row is
\* followed until its owner calls heartbeat, complete or fail.
NextWQLapse ==
  \/ lapse.pc = "idle" /\ Enqueue(0, NULL)
  \/ \E w \in Workers, d \in LeaseDurations :
        lapse.pc = "idle" /\ ClaimNext(w, d, NULL)
  \/ Tick
  \/ \E j \in JobIds, w \in Workers : LapseBegin(j, w)
  \/ LapseSweep
  \/ \E w \in Workers, d \in LeaseDurations : LapseClaimNext(w, d)
  \/ \E d \in LeaseDurations : LapseHeartbeat(d)
  \/ LapseComplete
  \/ LapseFail
  \/ LapseEnd

\* The owner's call went through: one row written, the followed row renewed
\* (heartbeat) or closed (complete, fail), every other row as it was.
LateCallSucceeds ==
  LET j == lapse.job IN
    /\ last'.ok /\ last'.rows = 1
    /\ \A i \in 1..Len(wq) : i # j => wq'[i] = wq[i]
    /\ last'.op = "heartbeat" =>
         /\ wq'[j].status = "running" /\ wq'[j].claimed_by = {lapse.owner}
         /\ \E l \in wq'[j].lease_expires_at : l > now
    /\ last'.op = "complete" => wq'[j].status = "completed"
    /\ last'.op = "fail" => wq'[j].status = "failed"

\* The owner's call was refused and wrote nothing.
LateCallRefused == ~last'.ok /\ last'.rows = 0 /\ wq' = wq

\* A call of the followed owner: heartbeat, complete or fail.
LateCall == lapse.pc = "lapsed" /\ lapse'.pc = "done"

\* C39 as stated: past the expiry of its lease the owner's heartbeat, complete
\* and fail go through while no requeue_expired_running or claim_next has
\* taken the row back, and after such a reclaim they are refused and write
\* nothing.
C39_ReclaimRevokes ==
  [][LateCall =>
       IF lapse.reclaimed THEN LateCallRefused ELSE LateCallSucceeds]_vars

\* C39 amended: past the expiry of its lease the owner's heartbeat, complete
\* and fail go through while no requeue_expired_running or claim_next has
\* taken the row back; after such a reclaim they are refused and write
\* nothing unless that worker has claimed the row again since the reclaim.
C39_ReclaimRevokesUntilClaimedAgain ==
  [][LateCall =>
       /\ ~lapse.reclaimed => LateCallSucceeds
       /\ (lapse.reclaimed /\ ~lapse.again) => LateCallRefused]_vars

\* An owner past its lease has had a call go through, and an owner whose row
\* a reclaim took back has had its complete refused.
C39_Witness ==
  /\ lapse.pc = "done" /\ lapse.late
  /\ lapse.reclaimed /\ ~lapse.again
  /\ last.op = "complete" /\ last.worker = lapse.owner
  /\ ~last.ok /\ last.rows = 0

\* ------------------------------------------------- work queue: the claims

Final == {"completed", "failed"}

\* C1: every work-queue row has status = running exactly when claimed_by and
\* lease_expires_at are both non-null, and a completed or failed row has
\* both null.
C1_RunningIffOwnedAndLeased ==
  \A j \in 1..Len(wq) :
     /\ wq[j].status = "running"
          <=> (wq[j].claimed_by # NULL /\ wq[j].lease_expires_at # NULL)
     /\ wq[j].status \in Final
          => (wq[j].claimed_by = NULL /\ wq[j].lease_expires_at = NULL)

\* C2: in a race of claim_next calls (no capacity cap) that started with
\* exactly one runnable row, one caller got that row, every other caller got
\* empty, and the row is running and owned by the one that got it.
C2_OneWinnerPerRow ==
  (Cardinality(race.runnable) = 1 /\ \E w \in Workers : race.got[w] # -1)
    => \E w \in Workers :
          /\ race.got[w] \in race.runnable
          /\ wq[race.got[w]].status = "running"
          /\ wq[race.got[w]].claimed_by = {w}
          /\ \A v \in Workers \ {w} : race.got[v] \in {-1, 0}

\* C2 witness: every worker has called in a race over one runnable row.
C2_Witness ==
  /\ Cardinality(race.runnable) = 1
  /\ \A w \in Workers : race.got[w] # -1

\* C3: heartbeat, complete or fail on a running row by a worker other than
\* its owner returns ok=false, code not_owner, rows_affected 0 and leaves the
\* table as it was; a complete or fail that succeeds was called by the owner
\* of a running row.
C3_NonOwnerRejected ==
  [][ /\ ( /\ last'.op \in {"heartbeat", "complete", "fail"}
           /\ Exists(wq, last'.job)
           /\ wq[last'.job].status = "running"
           /\ wq[last'.job].claimed_by # NULL
           /\ wq[last'.job].claimed_by # {last'.worker} )
         => ( /\ last'.ok = FALSE
              /\ last'.code = "not_owner"
              /\ last'.rows = 0
              /\ wq' = wq )
      /\ ( last'.op \in {"complete", "fail"} /\ last'.ok )
         => ( /\ Exists(wq, last'.job)
              /\ wq[last'.job].status = "running"
              /\ wq[last'.job].claimed_by = {last'.worker}
              /\ wq'[last'.job].status \in Final )
    ]_vars

\* C3 witness: a finalization refused as not_owner on a row that was running
\* before this clock reading and is now held under a lease granted at it
\* (reclaimed from the first owner and claimed again).
C3_Witness ==
  /\ last.op \in {"complete", "fail"}
  /\ last.code = "not_owner"
  /\ wq[last.job].status = "running"
  /\ wq[last.job].created_at < now
  /\ wq[last.job].started_at = {now}
  /\ wq[last.job].lease_expires_at # NULL

C5_RequeueIdempotent ==
  [][ last'.op = "requeue_expired_running" =>
        LET due == {j \in 1..Len(wq) :
                      /\ wq[j].status = "running"
                      /\ \E l \in wq[j].lease_expires_at : l <= now}
        IN  /\ Len(wq') = Len(wq)
            /\ \A j \in due :
                 wq'[j] = [wq[j] EXCEPT !.status = "queued", !.claimed_by = NULL,
                                        !.lease_expires_at = NULL]
            /\ \A j \in (1..Len(wq)) \ due : wq'[j] = wq[j]
            /\ last'.rows = Cardinality(due)
            /\ last.op = "requeue_expired_running"
                 => (last'.rows = 0 /\ wq' = wq)
    ]_vars

\* C5 witness: a sweep that moved a row whose lease ends at this very second
\* and left a running row with a live lease alone.
C5_Witness ==
  /\ last.op = "requeue_expired_running"
  /\ last.rows = 1
  /\ \E j \in 1..Len(wq) :
        wq[j].status = "running" /\ \E l \in wq[j].lease_expires_at : l > now
  /\ \E j \in 1..Len(wq) :
        wq[j].status = "queued" /\ wq[j].started_at # NULL

\* C6: a completed or failed row is never changed again, and every claim,
\* heartbeat, complete or fail on it returns ok=false, and claim_next never
\* returns it.
C6_FinalIsTerminal ==
  [][ \A j \in 1..Len(wq) :
        wq[j].status \in Final =>
          /\ wq'[j] = wq[j]
          /\ ( last'.op \in {"claim", "heartbeat", "complete", "fail"}
               /\ last'.job = j ) => ~last'.ok
          /\ last'.op = "claim_next" => last'.ret # j
    ]_vars

\* C6 witness: a directed claim refused on a finalized row.
C6_Witness ==
  /\ last.op = "claim"
  /\ ~last.ok
  /\ last.from \in Final

\* C7: a running row that nobody renews or finalizes is eventually queued
\* again, however it entered running.
C7_AbandonedRowRequeued ==
  \A j \in JobIds :
     (Exists(wq, j) /\ wq[j].status = "running")
       ~> (Exists(wq, j) /\ wq[j].status = "queued")

\* C21: heartbeat succeeds exactly on a running row owned by the caller and
\* then sets lease_expires_at to now + d and nothing else; on a queued,
\* completed or failed row it returns ok=false, code invalid_transition; and
\* a heartbeat that fails leaves the table as it was.
C21_HeartbeatGuard ==
  [][ last'.op = "heartbeat" =>
        LET j == last'.job
            w == last'.worker
        IN  /\ last'.ok <=> ( /\ Exists(wq, j)
                              /\ wq[j].status = "running"
                              /\ wq[j].claimed_by = {w} )
            /\ last'.ok =>
                 \E d \in LeaseDurations :
                    wq' = [wq EXCEPT ![j].lease_expires_at = {now + d}]
            /\ ( Exists(wq, j) /\ wq[j].status \in {"queued"} \cup Final )
                 => ( ~last'.ok /\ last'.code = "invalid_transition" )
            /\ ~last'.ok => ( wq' = wq /\ last'.rows = 0 )
    ]_vars

\* C21 witness: a heartbeat refused as invalid_transition on a row that ran
\* before and is queued again, its owner and lease cleared.
C21_Witness ==
  /\ last.op = "heartbeat"
  /\ ~last.ok
  /\ last.code = "invalid_transition"
  /\ Exists(wq, last.job)
  /\ wq[last.job].status = "queued"
  /\ wq[last.job].started_at # NULL

\* C23: with every claimer on claim_next under the same cap, the number of
\* running rows with an unexpired lease never exceeds the cap; and a
\* claim_next issued while that number is at the cap returns empty and leaves
\* running only rows that were running, as they were.
C23_CapNeverExceeded ==
  /\ [](ActiveRunning(wq, now) <= MaxActiveRunning)
  /\ [][ ( /\ last'.op = "claim_next"
            /\ last'.cap = {MaxActiveRunning}
            /\ ActiveRunning(wq, now) >= MaxActiveRunning )
          => ( /\ last'.ret = 0
               /\ \A j \in 1..Len(wq) :
                     wq'[j].status = "running" => wq'[j] = wq[j] )
      ]_vars

\* C23 witness: claim_next returned empty at the cap while a runnable row
\* waits.
C23_Witness ==
  /\ last.op = "claim_next"
  /\ last.ret = 0
  /\ ActiveRunning(wq, now) = MaxActiveRunning
  /\ \E j \in 1..Len(wq) : wq[j].status = "queued" /\ wq[j].run_at <= now

C28_CompleteOnQueuedAllowedFrom ==
  [][ ( /\ last'.op = "complete"
        /\ Exists(wq, last'.job)
        /\ wq[last'.job].status = "queued" )
      => ( /\ ~last'.ok
           /\ last'.code = "invalid_transition"
           /\ last'.from = "queued"
           /\ last'.to = "completed"
           /\ last'.allowed_from = {"queued"}
           /\ wq' = wq
           /\ wq'[last'.job].claimed_by = NULL )
    ]_vars

\* C28: complete on a queued row returns ok=false, rows_affected 0, code
\* invalid_transition, from queued, to completed and required_from running,
\* with no allowed_from key, and leaves the row queued with no owner.
C28_CompleteOnQueued ==
  [][ ( /\ last'.op = "complete"
        /\ Exists(wq, last'.job)
        /\ wq[last'.job].status = "queued" )
      => ( /\ ~last'.ok
           /\ last'.rows = 0
           /\ last'.code = "invalid_transition"
           /\ last'.from = "queued"
           /\ last'.to = "completed"
           /\ last'.required_from = {"running"}
           /\ last'.allowed_from = NULL
           /\ wq' = wq
           /\ wq'[last'.job].claimed_by = NULL )
    ]_vars

\* C28 witness: complete refused on a queued row.
C28_Witness ==
  /\ last.op = "complete"
  /\ ~last.ok
  /\ last.from = "queued"
  /\ Exists(wq, last.job)
  /\ wq[last.job].status = "queued"

\* C29: a row that is running, or that is completed or failed and so has
\* been running, has started_at set.
C29_StartedAtSet ==
  \A j \in 1..Len(wq) :
     wq[j].status \in {"running"} \cup Final => wq[j].started_at # NULL

\* ---------------------------------------------------------- job dispatch

Callers == {"c1", "c2"}
Changelists == {1, 2}
Versions == 1..MaxVersion
Keys == {"k1", "k2", "k3"}

Idle ==
  [pc |-> "idle", cl |-> 0, rv |-> 0, key |-> "", rerun |-> FALSE,
   prior |-> NULL, status |-> "", job |-> 0, created |-> FALSE]

InitJD ==
  /\ jobs = <<>>
  /\ proc = [c \in Callers |-> Idle]

\* _get_by_idempotency_key: SELECT * FROM jobs WHERE idempotency_key = ?
\* NULL or {id}; UNIQUE(idempotency_key) leaves at most one.
GetByIdempotencyKey(rows, key) ==
  {j \in 1..Len(rows) : rows[j].idempotency_key = key}

\* WHERE changelist_id = ? AND status = 'succeeded'
SucceededOf(rows, cl) ==
  {j \in 1..Len(rows) : rows[j].changelist_id = cl /\ rows[j].status = "succeeded"}

\* ORDER BY review_version DESC, id DESC LIMIT 1: NULL or {id}
PriorSuccess(rows, cl) ==
  {j \in SucceededOf(rows, cl) :
     \A k \in SucceededOf(rows, cl) :
        \/ rows[k].review_version < rows[j].review_version
        \/ rows[k].review_version = rows[j].review_version /\ k <= j}

\* Mutant: the policy without its test for the version that succeeded.
PolicyNoSameVersion(rv, rerun, prior) ==
  IF rv > prior /\ ~rerun THEN "rerun_required"
  ELSE IF rv < prior THEN "stale_review_version"
  ELSE "insert"

\* Mutant: rerun_requested lets a submission of the version that already
\* succeeded through (>= where the code has >).
PolicyRerunBypass(rv, rerun, prior) ==
  IF rv = prior /\ ~rerun THEN "already_succeeded_same_version"
  ELSE IF rv > prior /\ ~rerun THEN "rerun_required"
  ELSE IF rv < prior THEN "stale_review_version"
  ELSE "insert"

\* The checks on prior_success, in the order the code makes them; "insert"
\* when none returns.
Policy(rv, rerun, prior) ==
  IF rv = prior THEN "already_succeeded_same_version"
  ELSE IF rv > prior /\ ~rerun THEN "rerun_required"
  ELSE IF rv < prior THEN "stale_review_version"
  ELSE "insert"

Returned(p, status, job, created) ==
  [p EXCEPT !.pc = "done", !.status = status, !.job = job, !.created = created]

NewJob(cl, rv, key) ==
  [changelist_id |-> cl, review_version |-> rv, idempotency_key |-> key,
   status |-> "queued"]

\* INSERT ... ON CONFLICT(idempotency_key) DO NOTHING
InsertOrIgnore(rows, row) ==
  IF GetByIdempotencyKey(rows, row.idempotency_key) = NULL
  THEN Append(rows, row) ELSE rows

\* submit_job, first statement: the lookup by idempotency key.
SubmitBegin(c, cl, rv, key, rerun) ==
  /\ proc[c].pc = "idle"
  /\ LET existing == GetByIdempotencyKey(jobs, key)
         args == [Idle EXCEPT !.cl = cl, !.rv = rv, !.key = key, !.rerun = rerun]
     IN  proc' = [proc EXCEPT ![c] =
                    IF existing # NULL
                    THEN Returned(args, "duplicate_idempotency",
                                  CHOOSE j \in existing : TRUE, FALSE)
                    ELSE [args EXCEPT !.pc = "prior"]]
  /\ UNCHANGED <<jobs, othersJD>>

\* Mutant: the refused attempt is recorded in the table before it is refused.
SubmitPriorRecordsAttempt(c) ==
  /\ proc[c].pc = "prior"
  /\ LET me == proc[c]
         prior == PriorSuccess(jobs, me.cl)
         found == CHOOSE j \in prior : TRUE
         verdict == IF prior = NULL THEN "insert"
                    ELSE Policy(me.rv, me.rerun, jobs[found].review_version)
     IN  /\ proc' = [proc EXCEPT ![c] =
                       IF verdict = "insert"
                       THEN [me EXCEPT !.pc = "insert", !.prior = prior]
                       ELSE Returned([me EXCEPT !.prior = prior], verdict, found, FALSE)]
         /\ jobs' = IF verdict = "insert" THEN jobs
                    ELSE InsertOrIgnore(jobs, NewJob(me.cl, me.rv, me.key))
  /\ UNCHANGED othersJD

\* submit_job, second statement: the prior-success lookup and the policy.
SubmitPrior(c) ==
  /\ proc[c].pc = "prior"
  /\ LET me == proc[c]
         prior == PriorSuccess(jobs, me.cl)
         found == CHOOSE j \in prior : TRUE
         verdict == IF prior = NULL THEN "insert"
                    ELSE Policy(me.rv, me.rerun, jobs[found].review_version)
     IN  proc' = [proc EXCEPT ![c] =
                    IF verdict = "insert"
                    THEN [me EXCEPT !.pc = "insert", !.prior = prior]
                    ELSE Returned([me EXCEPT !.prior = prior], verdict, found, FALSE)]
  /\ UNCHANGED <<jobs, othersJD>>

\* submit_job, third statement: the insert, its commit and the read back.
SubmitInsert(c) ==
  /\ proc[c].pc = "insert"
  /\ LET me == proc[c]
         after == InsertOrIgnore(jobs, NewJob(me.cl, me.rv, me.key))
         created == Len(after) = Len(jobs) + 1
         existing == CHOOSE j \in GetByIdempotencyKey(after, me.key) : TRUE
     IN  /\ jobs' = after
         /\ proc' = [proc EXCEPT ![c] =
                       Returned(me, IF created THEN "created"
                                    ELSE "duplicate_idempotency", existing, created)]
         /\ UNCHANGED othersJD

\* The caller takes the JobSubmissionResult; its next call starts afresh.
SubmitReturn(c) ==
  /\ proc[c].pc = "done"
  /\ proc' = [proc EXCEPT ![c] = Idle]
  /\ UNCHANGED <<jobs, othersJD>>

\* mark_succeeded(job_id): UPDATE jobs SET status = 'succeeded' WHERE id = ?
MarkSucceeded(j) ==
  /\ j \in 1..Len(jobs)
  /\ jobs' = [jobs EXCEPT ![j].status = "succeeded"]
  /\ UNCHANGED <<proc, othersJD>>

\* Two callers racing on one changelist.
NextJD ==
  \/ \E c \in Callers, rv \in Versions, key \in {"k1", "k2"}, rerun \in BOOLEAN :
        SubmitBegin(c, 1, rv, key, rerun)
  \/ \E c \in Callers : SubmitPrior(c)
  \/ \E c \in Callers : SubmitInsert(c)
  \/ \E c \in Callers : SubmitReturn(c)
  \/ \E j \in 1..Len(jobs) : MarkSucceeded(j)

\* One caller, so its calls follow one another; mark_succeeded runs any time.
NextJDSeq ==
  \/ \E cl \in Changelists, rv \in Versions, key \in Keys, rerun \in BOOLEAN :
        SubmitBegin("c1", cl, rv, key, rerun)
  \/ SubmitPrior("c1")
  \/ SubmitInsert("c1")
  \/ SubmitReturn("c1")
  \/ \E j \in 1..Len(jobs) : MarkSucceeded(j)

\* Whole calls one after another: mark_succeeded runs between two submit_job
\* calls, never inside one.
NextJDCalls ==
  \/ \E cl \in Changelists, rv \in Versions, key \in Keys, rerun \in BOOLEAN :
        SubmitBegin("c1", cl, rv, key, rerun)
  \/ SubmitPrior("c1")
  \/ SubmitInsert("c1")
  \/ SubmitReturn("c1")
  \/ \E j \in 1..Len(jobs) :
        proc["c1"].pc \in {"idle", "done"} /\ MarkSucceeded(j)

\* ------------------------------------------------ job dispatch: the claims

Refusals ==
  {"duplicate_idempotency", "already_succeeded_same_version",
   "rerun_required", "stale_review_version"}

\* C8: of the submit_job calls carrying one idempotency_key at most one
\* returns created=true and every other returns duplicate_idempotency with
\* the winner's row; no two rows of jobs share an idempotency_key.
C8_SameKeyOneCreated ==
  /\ \A i, j \in 1..Len(jobs) :
        jobs[i].idempotency_key = jobs[j].idempotency_key => i = j
  /\ \A c, e \in Callers :
        ( /\ c # e
          /\ proc[c].pc = "done" /\ proc[e].pc = "done"
          /\ proc[c].key = proc[e].key
          /\ proc[c].created )
        => ( /\ ~proc[e].created
             /\ proc[e].status = "duplicate_idempotency"
             /\ proc[e].job = proc[c].job )

\* C9: a submit_job whose key is unused, on a changelist whose succeeded row
\* of highest review_version (the latest such row) has version p, returns
\* already_succeeded_same_version if rv = p, rerun_required if rv > p without
\* rerun_requested, stale_review_version if rv < p, and goes on to insert,
\* returning created, only if rv > p with rerun_requested or if the
\* changelist has no succeeded row.
C9_VersionPolicy ==
  [][ \A c \in Callers :
        LET me == proc[c]
            succeeded == {j \in 1..Len(jobs) :
                            /\ jobs[j].changelist_id = me.cl
                            /\ jobs[j].status = "succeeded"}
            p == CHOOSE v \in {jobs[j].review_version : j \in succeeded} :
                    \A j \in succeeded : jobs[j].review_version <= v
            expected ==
              IF succeeded = {} THEN "created"
              ELSE IF me.rv = p THEN "already_succeeded_same_version"
              ELSE IF me.rv < p THEN "stale_review_version"
              ELSE IF me.rerun THEN "created"
              ELSE "rerun_required"
        IN  /\ (me.pc = "prior" /\ proc'[c].pc # "prior") =>
                 IF expected = "created"
                 THEN proc'[c].pc = "insert"
                 ELSE /\ proc'[c].pc = "done"
                      /\ proc'[c].status = expected
                      /\ ~proc'[c].created
                      /\ proc'[c].job \in succeeded
                      /\ jobs[proc'[c].job].review_version = p
                      /\ \A j \in succeeded :
                           jobs[j].review_version = p => j <= proc'[c].job
            /\ ( /\ me.pc = "insert" /\ proc'[c].pc # "insert"
                 /\ \A j \in 1..Len(jobs) : jobs[j].idempotency_key # me.key )
               => ( /\ proc'[c].pc = "done"
                    /\ proc'[c].status = "created"
                    /\ proc'[c].created
                    /\ proc'[c].job = Len(jobs) + 1
                    /\ jobs' = Append(jobs, [changelist_id |-> me.cl,
                                             review_version |-> me.rv,
                                             idempotency_key |-> me.key,
                                             status |-> "queued"]) )
    ]_vars

\* C9 witness: a rerun of the version that already succeeded is refused on a
\* changelist with two succeeded rows, the one of lower version being the
\* later row.
C9_Witness ==
  \E c \in Callers :
     /\ proc[c].pc = "done"
     /\ proc[c].status = "already_succeeded_same_version"
     /\ proc[c].rerun
     /\ \E j \in 1..Len(jobs) :
           /\ j > proc[c].job
           /\ jobs[j].changelist_id = proc[c].cl
           /\ jobs[j].status = "succeeded"
           /\ jobs[j].review_version < proc[c].rv

\* C10: a submit_job call that returns duplicate_idempotency,
\* already_succeeded_same_version, rerun_required or stale_review_version
\* changes nothing in jobs, in any of its steps, and returns a row that was
\* already there: the row with its key, or a succeeded row of its changelist.
C10_RefusalChangesNothing ==
  [][ \A c \in Callers :
        /\ ( /\ proc[c].pc # "done" /\ proc'[c].pc = "done"
             /\ proc'[c].status \in Refusals )
           => ( /\ jobs' = jobs
                /\ proc'[c].job \in 1..Len(jobs)
                /\ IF proc'[c].status = "duplicate_idempotency"
                   THEN jobs[proc'[c].job].idempotency_key = proc'[c].key
                   ELSE /\ jobs[proc'[c].job].changelist_id = proc'[c].cl
                        /\ jobs[proc'[c].job].status = "succeeded" )
        /\ ( /\ proc'[c] # proc[c]
             /\ ~(proc'[c].pc = "done" /\ proc'[c].status = "created") )
           => jobs' = jobs
    ]_vars

\* C10 witness: a call has returned duplicate_idempotency with the row that
\* another call, carrying the same key, created.
C10_Witness ==
  \E c, e \in Callers :
     /\ proc[c].pc = "done" /\ proc[c].status = "duplicate_idempotency"
     /\ proc[e].pc = "done" /\ proc[e].created
     /\ proc[c].key = proc[e].key
     /\ proc[c].job = proc[e].job

\* C34: in any interleaving of concurrent submit_job and mark_succeeded calls
\* on one changelist, the insert of submit_job never adds a row whose
\* review_version is less than or equal to the highest review_version among
\* the rows of that changelist that are succeeded at the moment of the
\* insert, and never adds a higher version without rerun_requested.
C34_InsertRespectsSucceeded ==
  [][ \A c \in Callers :
        LET me == proc[c]
            succeeded == {j \in 1..Len(jobs) :
                            /\ jobs[j].changelist_id = me.cl
                            /\ jobs[j].status = "succeeded"}
        IN  ( /\ me.pc = "insert" /\ proc'[c].pc = "done"
              /\ Len(jobs') = Len(jobs) + 1 )
            => \A j \in succeeded :
                  /\ jobs'[Len(jobs')].review_version > jobs[j].review_version
                  /\ me.rerun
    ]_vars

SameAttempt(a, b) ==
  a.changelist_id = b.changelist_id /\ a.review_version = b.review_version

\* C35 as stated: after any sequence of submit_job and mark_succeeded calls
\* no two rows of jobs have the same (changelist_id, review_version) and
\* different idempotency keys.
C35_OneAttemptPerVersion ==
  \A i, j \in 1..Len(jobs) :
     SameAttempt(jobs[i], jobs[j]) =>
       jobs[i].idempotency_key = jobs[j].idempotency_key

\* C35 amended: after any sequence of submit_job and mark_succeeded calls no
\* two rows of jobs share an idempotency key, and a submit_job call adds a
\* row for a (changelist_id, review_version) only while no row of that
\* changelist with that or a higher review_version is succeeded; rows of one
\* changelist and version under different keys do exist, all but the first
\* of them inserted before any of them succeeded.
C35_OneAttemptOnceSucceeded ==
  /\ [] ( \A i, j \in 1..Len(jobs) :
            jobs[i].idempotency_key = jobs[j].idempotency_key => i = j )
  /\ [][ Len(jobs') = Len(jobs) + 1 =>
           \A j \in 1..Len(jobs) :
              ( /\ jobs[j].changelist_id = jobs'[Len(jobs')].changelist_id
                /\ jobs[j].review_version >= jobs'[Len(jobs')].review_version )
              => jobs[j].status # "succeeded"
     ]_vars

\* C35 witness: two rows of one changelist and review version under two keys,
\* the first of them succeeded by now, and a later submit_job for that
\* version under a third key has been refused.
C35_Witness ==
  /\ \E i, j \in 1..Len(jobs) :
        /\ i < j
        /\ SameAttempt(jobs[i], jobs[j])
        /\ jobs[i].idempotency_key # jobs[j].idempotency_key
        /\ jobs[i].status = "succeeded"
        /\ proc["c1"].pc = "done"
        /\ proc["c1"].status = "already_succeeded_same_version"
        /\ proc["c1"].cl = jobs[i].changelist_id
        /\ proc["c1"].rv = jobs[i].review_version

\* ---------------------------------------------------- notification outbox

MaxRecipients == 2

Recipients == {"a", "b"}
Deliverers == {"d1", "d2"}
RecipientLists == UNION {[1..n -> Recipients] : n \in 0..MaxRecipients}

\* An id the provider knows though no send of this ledger returned it, and an
\* id it does not know ("msg-preexisting", "msg-missing").
MsgPreexisting == 101
MsgMissing == 102

\* idempotency_key(changelist_id, recipient, review_version): the digest of
\* "<changelist_id>:<recipient>:<review_version>", one key per triple.
IdempotencyKey(cl, r, rv) == <<cl, r, rv>>

\* A payload is a dict: its (key, value) pairs in insertion order, keys
\* distinct.  PayloadA and PayloadASwapped are one dict written in two orders.
PayloadA == << <<"x", 1>>, <<"y", 2>> >>
PayloadASwapped == << <<"y", 2>>, <<"x", 1>> >>
PayloadB == << <<"x", 2>> >>
Payloads == {PayloadA, PayloadASwapped, PayloadB}

KeyRank(k) == IF k = "x" THEN 1 ELSE 2

\* json.dumps(payload, sort_keys=True): the pairs in key order.
RECURSIVE SortByKey(_)
SortByKey(pairs) ==
  IF pairs = {} THEN <<>>
  ELSE LET first == CHOOSE a \in pairs :
                       \A b \in pairs : KeyRank(a[1]) <= KeyRank(b[1])
       IN  <<first>> \o SortByKey(pairs \ {first})

PayloadJson(payload) == SortByKey({payload[k] : k \in 1..Len(payload)})

NewOutboxRow(cl, r, rv, payload) ==
  [changelist_id |-> cl, recipient |-> r, review_version |-> rv,
   payload |-> PayloadJson(payload),
   idempotency_key |-> IdempotencyKey(cl, r, rv), status |-> "queued",
   notification_id |-> NULL, notified_at |-> NULL]

\* UNIQUE(changelist_id, recipient, review_version)
SameTriple(a, b) ==
  /\ a.changelist_id = b.changelist_id
  /\ a.recipient = b.recipient
  /\ a.review_version = b.review_version

\* Mutant: a plain INSERT, as if the table had no unique key.
InsertOutboxAlways(rows, row) == Append(rows, row)

\* Mutant: ON CONFLICT ... DO UPDATE SET payload, the last write winning.
InsertOutboxLastWins(rows, row) ==
  IF \E j \in 1..Len(rows) : SameTriple(rows[j], row)
  THEN [j \in 1..Len(rows) |->
          IF SameTriple(rows[j], row)
          THEN [rows[j] EXCEPT !.payload = row.payload]
          ELSE rows[j]]
  ELSE Append(rows, row)

\* INSERT ... ON CONFLICT(changelist_id, recipient, review_version) DO NOTHING
InsertOutbox(rows, row) ==
  IF \E j \in 1..Len(rows) : SameTriple(rows[j], row) THEN rows
  ELSE Append(rows, row)

\* for recipient in recipients: INSERT ...
RECURSIVE InsertAll(_, _, _, _, _)
InsertAll(rows, cl, rv, recipients, payload) ==
  IF recipients = <<>> THEN rows
  ELSE InsertAll(InsertOutbox(rows,
                              NewOutboxRow(cl, Head(recipients), rv, payload)),
                 cl, rv, Tail(recipients), payload)

\* The record of the most recent prepare_rows or deliver_pending call: for
\* deliver_pending the rows its SELECT saw, the list it returned, the
\* recipients it called provider.send for and, in earlier, the list and the
\* sends of the deliver_pending call right before it if that one was for the
\* same partition (NULL otherwise).
NoPrev ==
  [op |-> "none", part |-> <<0, 0>>, recipients |-> <<>>,
   payload |-> <<>>, seen |-> <<>>,
   results |-> <<>>, sends |-> <<>>, earlier |-> NULL]

\* prepare_rows(changelist_id, review_version, recipients, payload)
PrepareRows(cl, rv, recipients, payload) ==
  /\ outbox' = InsertAll(outbox, cl, rv, recipients, payload)
  /\ prev' = [NoPrev EXCEPT !.op = "prepare_rows", !.part = <<cl, rv>>,
                           !.recipients = recipients,
                           !.payload = PayloadJson(payload)]
  /\ UNCHANGED <<provider, dl, othersOB>>

\* prepare_notifications(job_id, recipients, payload): the partition is the
\* dispatch row's (changelist_id, review_version).
PrepareNotifications(j, recipients, payload) ==
  /\ j \in 1..Len(jobs)
  /\ PrepareRows(jobs[j].changelist_id, jobs[j].review_version, recipients,
                 payload)

\* Mutant: unsent_rows without the filter on notified_at.
PartitionRows(rows, cl, rv) ==
  {j \in 1..Len(rows) :
     rows[j].changelist_id = cl /\ rows[j].review_version = rv}

\* WHERE changelist_id = ? AND review_version = ? AND notified_at IS NULL
Unsent(rows, cl, rv) ==
  {j \in 1..Len(rows) :
     /\ rows[j].changelist_id = cl
     /\ rows[j].review_version = rv
     /\ rows[j].notified_at = NULL}

\* ORDER BY recipient ASC, id ASC ("a" < "b")
RecipientRank(r) == IF r = "a" THEN 1 ELSE 2

\* Mutant: ORDER BY id ASC alone.
ComesBeforeById(rows, i, j) == i < j

ComesBefore(rows, i, j) ==
  \/ RecipientRank(rows[i].recipient) < RecipientRank(rows[j].recipient)
  \/ rows[i].recipient = rows[j].recipient /\ i < j

RECURSIVE Ordered(_, _)
Ordered(rows, ids) ==
  IF ids = {} THEN <<>>
  ELSE LET first == CHOOSE i \in ids : \A j \in ids \ {i} : ComesBefore(rows, i, j)
       IN  <<first>> \o Ordered(rows, ids \ {first})

\* unsent_rows(changelist_id, review_version): the ids, in order
UnsentRows(rows, cl, rv) == Ordered(rows, Unsent(rows, cl, rv))

\* FakeProvider.send: the message stored under the key if there is one, else
\* a new message "msg-<n+1>", which lookup then knows.  A message remembers
\* the outbox row whose delivery sent it.
SentUnder(pr, key) == {m \in pr.sent : m.key = key}

\* Mutant: a provider that answers every send with a new id.
SendReturnsFresh(pr, key) == Cardinality(pr.sent) + 1

SendReturns(pr, key) ==
  IF SentUnder(pr, key) # {} THEN (CHOOSE m \in SentUnder(pr, key) : TRUE).id
  ELSE Cardinality(pr.sent) + 1

Send(pr, to, key, row) ==
  IF SentUnder(pr, key) # {} THEN pr
  ELSE [sent |-> pr.sent \cup {[key |-> key, to |-> to, row |-> row,
                                id |-> Cardinality(pr.sent) + 1]},
        existing |-> pr.existing \cup {Cardinality(pr.sent) + 1}]

\* FakeProvider.lookup
Lookup(pr, id) == id \in pr.existing

\* Mutant: the send that passes no stable key, so each caller's send is new.
SendKeyOfCaller(r, d) == <<r.idempotency_key, d>>

\* idempotency_key=row["idempotency_key"]
SendKey(r, d) == r.idempotency_key

\* Mutant: the reconciling UPDATE without status = 'sent'.
MarkReconciledNoStatus(r, t) == [r EXCEPT !.notified_at = {t}]

\* SET status = 'sent', notified_at = now()
MarkReconciled(r, t) == [r EXCEPT !.status = "sent", !.notified_at = {t}]

\* Mutant: the provider's id written and committed by itself, the row to be
\* marked sent by a statement that follows.
MarkSentIdFirst(r, id, t) == [r EXCEPT !.notification_id = {id}]

\* Mutant: the final UPDATE without notified_at.
MarkSentNoStamp(r, id, t) == [r EXCEPT !.notification_id = {id}, !.status = "sent"]

\* SET notification_id = ?, status = 'sent', notified_at = now()
MarkSent(r, id, t) ==
  [r EXCEPT !.notification_id = {id}, !.status = "sent", !.notified_at = {t}]

IdleD ==
  [pc |-> "idle", mode |-> "row", part |-> <<0, 0>>, seen |-> <<>>,
   todo |-> <<>>, row |-> 0, stored |-> NULL, got |-> 0, results |-> <<>>,
   sends |-> <<>>, lookups |-> 0]

DeliveryResult(status, row, id) ==
  [status |-> status, row_id |-> row, provider_message_id |-> id]

\* A deliver_row call returns: to its caller, or to the loop of
\* deliver_pending, which goes on to the next row or returns its list.
Finished(f, result) ==
  [f EXCEPT !.results = Append(@, result),
            !.pc = IF f.mode = "row" \/ f.todo = <<>> THEN "done" ELSE "next"]

\* deliver_row, first statement: SELECT the row, then branch on what it holds.
AfterRead(f, rows, j) ==
  IF rows[j].notified_at # NULL
  THEN Finished([f EXCEPT !.row = j],
                DeliveryResult("already_sent", j, rows[j].notification_id))
  ELSE [f EXCEPT !.row = j, !.stored = rows[j].notification_id,
                 !.pc = IF rows[j].notification_id # NULL THEN "lookup" ELSE "send"]

\* The record of a deliver_pending call that has returned.
PrevAfter(f) ==
  IF f.pc = "done" /\ f.mode = "pending"
  THEN [NoPrev EXCEPT
          !.op = "deliver_pending", !.part = f.part, !.seen = f.seen,
          !.results = f.results, !.sends = f.sends,
          !.earlier = IF prev.op = "deliver_pending" /\ prev.part = f.part
                      THEN {[results |-> prev.results, sends |-> prev.sends]}
                      ELSE NULL]
  ELSE prev

InitOB ==
  /\ outbox = <<>>
  /\ provider = [sent |-> {}, existing |-> {}]
  /\ dl = [d \in Deliverers |-> IdleD]
  /\ prev = NoPrev

\* deliver_row(row_id, provider), up to its first branch
DeliverRow(d, j) ==
  /\ dl[d].pc = "idle"
  /\ j \in 1..Len(outbox)
  /\ dl' = [dl EXCEPT ![d] = AfterRead([IdleD EXCEPT !.mode = "row"], outbox, j)]
  /\ UNCHANGED <<outbox, provider, prev, othersOB>>

\* deliver_pending(changelist_id, review_version, provider): the unsent_rows
\* SELECT; with no row it returns the empty list.
DeliverPending(d, cl, rv) ==
  /\ dl[d].pc = "idle"
  /\ LET todo == UnsentRows(outbox, cl, rv)
         f == [IdleD EXCEPT !.mode = "pending", !.part = <<cl, rv>>,
                            !.seen = todo, !.todo = todo,
                            !.pc = IF todo = <<>> THEN "done" ELSE "next"]
     IN  /\ dl' = [dl EXCEPT ![d] = f]
         /\ prev' = PrevAfter(f)
  /\ UNCHANGED <<outbox, provider, othersOB>>

\* The loop of deliver_pending enters deliver_row for its next row.
DeliverNext(d) ==
  /\ dl[d].pc = "next"
  /\ LET f == AfterRead([dl[d] EXCEPT !.todo = Tail(@)], outbox, Head(dl[d].todo))
     IN  /\ dl' = [dl EXCEPT ![d] = f]
         /\ prev' = PrevAfter(f)
  /\ UNCHANGED <<outbox, provider, othersOB>>

\* provider.lookup(provider_message_id)
DeliverLookup(d) ==
  /\ dl[d].pc = "lookup"
  /\ dl' = [dl EXCEPT ![d].lookups = @ + 1,
                      ![d].pc = IF \E id \in dl[d].stored : Lookup(provider, id)
                                THEN "reconcile" ELSE "send"]
  /\ UNCHANGED <<outbox, provider, prev, othersOB>>

\* The reconciling UPDATE, its commit and the return of "reconciled".
DeliverReconcile(d) ==
  /\ dl[d].pc = "reconcile"
  /\ outbox' = [outbox EXCEPT ![dl[d].row] = MarkReconciled(@, now)]
  /\ LET f == Finished(dl[d], DeliveryResult("reconciled", dl[d].row, dl[d].stored))
     IN  /\ dl' = [dl EXCEPT ![d] = f]
         /\ prev' = PrevAfter(f)
  /\ UNCHANGED <<provider, othersOB>>

\* provider.send(recipient, payload, idempotency_key=...)
DeliverSend(d) ==
  /\ dl[d].pc = "send"
  /\ LET r == outbox[dl[d].row]
         key == SendKey(r, d)
     IN  /\ provider' = Send(provider, r.recipient, key, dl[d].row)
         /\ dl' = [dl EXCEPT ![d].got = SendReturns(provider, key),
                             ![d].sends = Append(@, r.recipient),
                             ![d].pc = "commit"]
  /\ UNCHANGED <<outbox, prev, othersOB>>

\* The final UPDATE, its commit and the return of "sent".
DeliverCommit(d) ==
  /\ dl[d].pc = "commit"
  /\ outbox' = [outbox EXCEPT ![dl[d].row] = MarkSent(@, dl[d].got, now)]
  /\ LET f == Finished(dl[d], DeliveryResult("sent", dl[d].row, {dl[d].got}))
     IN  /\ dl' = [dl EXCEPT ![d] = f]
         /\ prev' = PrevAfter(f)
  /\ UNCHANGED <<provider, othersOB>>

\* The caller takes the result; its next call starts afresh.
DeliverReturn(d) ==
  /\ dl[d].pc = "done"
  /\ dl' = [dl EXCEPT ![d] = IdleD]
  /\ UNCHANGED <<outbox, provider, prev, othersOB>>

\* The process dies inside a call: what it has committed stays, its locals
\* are lost, and the attempt is made again from the start.
DeliverCrash(d) ==
  /\ dl[d].pc \in {"next", "lookup", "reconcile", "send", "commit"}
  /\ dl' = [dl EXCEPT ![d] = IdleD]
  /\ UNCHANGED <<outbox, provider, prev, othersOB>>

\* The state a crash between recording the provider's id and marking the row
\* sent leaves, written from outside as the tests write it: notification_id
\* set, notified_at null.  known: the provider has a message of that id.
ExternalCrashState(j, id, known) ==
  /\ j \in 1..Len(outbox)
  /\ outbox[j].notified_at = NULL
  /\ outbox[j].notification_id = NULL
  /\ \A d \in Deliverers : dl[d].pc = "idle"
  /\ outbox' = [outbox EXCEPT ![j].notification_id = {id}]
  /\ provider' = IF known THEN [provider EXCEPT !.existing = @ \cup {id}]
                 ELSE provider
  /\ prev' = NoPrev
  /\ UNCHANGED <<dl, othersOB>>

OBChangelists == {1, 2}

\* Two deliverers on one partition, and crashes.
NextOB ==
  \/ \E rs \in RecipientLists : PrepareRows(1, 1, rs, PayloadA)
  \/ \E d \in Deliverers, j \in 1..Len(outbox) : DeliverRow(d, j)
  \/ \E d \in Deliverers : DeliverPending(d, 1, 1)
  \/ \E d \in Deliverers : DeliverNext(d)
  \/ \E d \in Deliverers : DeliverSend(d)
  \/ \E d \in Deliverers : DeliverCommit(d)
  \/ \E d \in Deliverers : DeliverReturn(d)
  \/ \E d \in Deliverers : DeliverCrash(d)

\* Two workers, one call each (deliver_row or deliver_pending) on one
\* partition, no crash; a call that has returned keeps its record.
NextOBPair ==
  \/ \E rs \in RecipientLists : PrepareRows(1, 1, rs, PayloadA)
  \/ \E d \in Deliverers, j \in 1..Len(outbox) : DeliverRow(d, j)
  \/ \E d \in Deliverers : DeliverPending(d, 1, 1)
  \/ \E d \in Deliverers : DeliverNext(d)
  \/ \E d \in Deliverers : DeliverSend(d)
  \/ \E d \in Deliverers : DeliverCommit(d)

\* One thread of calls, each starting when the one before has returned, and
\* no crash; two partitions, recipient lists without a repeated recipient.
NextOBSeq ==
  \/ \E cl \in OBChangelists, rs \in RecipientLists :
        /\ dl["d1"].pc \in {"idle", "done"}
        /\ \A i, k \in 1..Len(rs) : rs[i] = rs[k] => i = k
        /\ PrepareRows(cl, 1, rs, PayloadA)
  \/ \E j \in 1..Len(outbox) : DeliverRow("d1", j)
  \/ \E cl \in OBChangelists : DeliverPending("d1", cl, 1)
  \/ DeliverNext("d1")
  \/ DeliverSend("d1")
  \/ DeliverCommit("d1")
  \/ DeliverReturn("d1")

\* prepare_notifications on the rows one submit_job caller creates, next to
\* direct prepare_rows calls.
NextOBJobs ==
  \/ \E cl \in OBChangelists, key \in {"k1", "k2"} :
        SubmitBegin("c1", cl, 1, key, FALSE)
  \/ SubmitPrior("c1")
  \/ SubmitInsert("c1")
  \/ SubmitReturn("c1")
  \/ \E j \in 1..Len(jobs), rs \in RecipientLists : PrepareNotifications(j, rs, PayloadA)
  \/ \E rs \in RecipientLists : PrepareRows(1, 1, rs, PayloadA)

\* One deliverer, and rows left in the crash state.
NextOBCrash ==
  \/ \E rs \in RecipientLists : PrepareRows(1, 1, rs, PayloadA)
  \/ \E j \in 1..Len(outbox), id \in {MsgPreexisting, MsgMissing},
        known \in BOOLEAN : ExternalCrashState(j, id, known)
  \/ \E j \in 1..Len(outbox) : DeliverRow("d1", j)
  \/ DeliverPending("d1", 1, 1)
  \/ DeliverNext("d1")
  \/ DeliverLookup("d1")
  \/ DeliverReconcile("d1")
  \/ DeliverSend("d1")
  \/ DeliverCommit("d1")
  \/ DeliverReturn("d1")

\* prepare_rows and prepare_notifications with changing payloads, on rows
\* that one deliverer sends in between.
NextOBFirst ==
  \/ SubmitBegin("c1", 1, 1, "k1", FALSE)
  \/ SubmitPrior("c1")
  \/ SubmitInsert("c1")
  \/ SubmitReturn("c1")
  \/ \E j \in 1..Len(jobs), rs \in RecipientLists, p \in Payloads :
        PrepareNotifications(j, rs, p)
  \/ \E rs \in RecipientLists, p \in Payloads : PrepareRows(1, 1, rs, p)
  \/ \E j \in 1..Len(outbox) : DeliverRow("d1", j)
  \/ DeliverSend("d1")
  \/ DeliverCommit("d1")
  \/ DeliverReturn("d1")

\* ------------------------------------------- notification outbox: claims

TripleRows(cl, r, rv) ==
  {j \in 1..Len(outbox) :
     /\ outbox[j].changelist_id = cl
     /\ outbox[j].recipient = r
     /\ outbox[j].review_version = rv}

\* C11: after any sequence of prepare_rows and prepare_notifications calls
\* no two outbox rows share (changelist_id, recipient, review_version), and
\* every recipient the latest call named, once or several times, before or
\* not, has exactly one row in the call's partition.
C11_OneRowPerTriple ==
  /\ \A i, j \in 1..Len(outbox) : SameTriple(outbox[i], outbox[j]) => i = j
  /\ prev.op = "prepare_rows" =>
       \A k \in 1..Len(prev.recipients) :
          Cardinality(TripleRows(prev.part[1], prev.recipients[k], prev.part[2])) = 1

\* C11 witness: a call naming one recipient twice has returned, on a table
\* that holds rows of two partitions.
C11_Witness ==
  /\ prev.op = "prepare_rows"
  /\ prev.recipients = <<"a", "a">>
  /\ \E i, j \in 1..Len(outbox) :
        outbox[i].changelist_id # outbox[j].changelist_id
  /\ Len(jobs) > 0

\* C12: every outbox row has status = sent exactly when notified_at is set.
C12_SentIffNotified ==
  \A j \in 1..Len(outbox) :
     outbox[j].status = "sent" <=> outbox[j].notified_at # NULL

\* C12 witness: of two rows one is sent and one is not.
C12_Witness ==
  \E i, j \in 1..Len(outbox) :
     /\ outbox[i].status = "sent" /\ outbox[i].notified_at # NULL
     /\ outbox[j].status = "queued" /\ outbox[j].notified_at = NULL

Times(seq, x) == Cardinality({k \in 1..Len(seq) : seq[k] = x})

\* C13: a deliver_pending call returns one sent result for each row its
\* partition held unsent, in order; the next deliver_pending call for the
\* same partition, no prepare_rows in between, returns the empty list; and
\* over the two calls provider.send is called at most once for a recipient.
C13_DeliverPendingTwice ==
  prev.op = "deliver_pending" =>
    /\ Len(prev.results) = Len(prev.seen)
    /\ \A k \in 1..Len(prev.results) :
          /\ prev.results[k].status = "sent"
          /\ prev.results[k].row_id = prev.seen[k]
    /\ \A r \in Recipients : Times(prev.sends, r) <= 1
    /\ \A e \in prev.earlier :
          /\ prev.results = <<>>
          /\ \A r \in Recipients : Times(e.sends \o prev.sends, r) <= 1

\* C13 witness: a call that returned two sent results was followed by a
\* call for the same partition, which has returned.
C13_Witness ==
  /\ prev.op = "deliver_pending"
  /\ \E e \in prev.earlier :
        /\ Len(e.results) = 2
        /\ \A k \in 1..2 : e.results[k].status = "sent"
        /\ Len(e.sends) = 2
  /\ prev.results = <<>>

\* C14: deliver_row on a row with notification_id set and notified_at null
\* asks the provider once; if lookup confirms the id it returns reconciled,
\* calls no send and keeps the stored id; if lookup denies it, it returns
\* sent after exactly one send and stores the id that send returned; either
\* way the row is sent afterwards.  deliver_row on a row with notified_at set
\* returns already_sent, calls neither lookup nor send and changes nothing.
C14_CrashStateReconciled ==
  [][ LET me == dl["d1"]
          f == dl'["d1"]
          j == f.row
          res == f.results[Len(f.results)]
      IN  ( /\ f.mode = "row"
            /\ me.pc # "done" /\ f.pc = "done" )
          => /\ ( outbox[j].notified_at # NULL
                  => /\ res.status = "already_sent"
                     /\ res.provider_message_id = outbox[j].notification_id
                     /\ f.lookups = 0 /\ f.sends = <<>>
                     /\ outbox' = outbox /\ provider' = provider )
             /\ ( /\ outbox[j].notified_at = NULL
                  /\ outbox[j].notification_id # NULL
                  /\ outbox[j].notification_id \subseteq provider.existing )
                => /\ res.status = "reconciled"
                   /\ f.lookups = 1 /\ f.sends = <<>>
                   /\ res.provider_message_id = outbox[j].notification_id
                   /\ outbox'[j].notification_id = outbox[j].notification_id
                   /\ outbox'[j].status = "sent"
                   /\ outbox'[j].notified_at # NULL
             /\ ( /\ outbox[j].notified_at = NULL
                  /\ outbox[j].notification_id # NULL
                  /\ ~(outbox[j].notification_id \subseteq provider.existing) )
                => /\ res.status = "sent"
                   /\ f.lookups = 1 /\ Len(f.sends) = 1
                   /\ res.provider_message_id = outbox'[j].notification_id
                   /\ outbox'[j].notification_id # outbox[j].notification_id
                   /\ \E m \in provider.sent :
                         /\ m.key = outbox[j].idempotency_key
                         /\ outbox'[j].notification_id = {m.id}
                   /\ outbox'[j].status = "sent"
                   /\ outbox'[j].notified_at # NULL
    ]_vars

\* C14 witness: one row was reconciled on its stored id, and a deliver_row on
\* a row whose stored id the provider denied has returned sent.
C14_Witness ==
  /\ \E j \in 1..Len(outbox) :
        /\ outbox[j].status = "sent"
        /\ outbox[j].notification_id = {MsgPreexisting}
  /\ dl["d1"].pc = "done" /\ dl["d1"].mode = "row"
  /\ dl["d1"].results[1].status = "sent"
  /\ dl["d1"].lookups = 1

MessagesOf(j) == {m \in provider.sent : m.row = j}

\* C15: with a provider that is idempotent on the key, through any
\* interleaving of deliver_row and deliver_pending attempts and crashes
\* between a send and its commit, the provider holds at most one message for
\* an outbox row, and a row that is sent stores the id of that message.
C15_AtMostOneMessage ==
  \A j \in 1..Len(outbox) :
     /\ Cardinality(MessagesOf(j)) <= 1
     /\ outbox[j].status = "sent" =>
          \E m \in MessagesOf(j) : outbox[j].notification_id = {m.id}

\* C15 witness: one row is sent and stores its message's id while a second
\* send for it has returned and awaits its commit; another row's message is
\* at the provider though the row is unsent and no attempt is under way on
\* it (the attempt that sent it died).
C15_Witness ==
  \E i, j \in 1..Len(outbox) :
     /\ outbox[i].status = "sent"
     /\ \E m \in MessagesOf(i) : outbox[i].notification_id = {m.id}
     /\ \E d \in Deliverers : dl[d].pc = "commit" /\ dl[d].row = i
     /\ outbox[j].notified_at = NULL
     /\ MessagesOf(j) # {}
     /\ \A d \in Deliverers : dl[d].row # j

\* The provider.send invocations worker d's call has made for row j (the rows
\* of one partition differ in their recipient).
SendsFor(d, j) ==
  Cardinality({i \in 1..Len(dl[d].sends) : dl[d].sends[i] = outbox[j].recipient})

Invocations(j) == SendsFor("d1", j) + SendsFor("d2", j)

\* The ids the sends for row j have returned to worker d.
IdsReturned(d, j) ==
  (IF dl[d].pc = "commit" /\ dl[d].row = j THEN {dl[d].got} ELSE {})
  \cup UNION {dl[d].results[i].provider_message_id :
                i \in {i \in 1..Len(dl[d].results) :
                         /\ dl[d].results[i].row_id = j
                         /\ dl[d].results[i].status = "sent"}}

\* C40 as stated: with two workers' deliver_row or deliver_pending calls on
\* one unsent row, the read of the row and the write marking it sent being
\* separate steps, provider.send is invoked at most once for the row across
\* both workers.
C40_SendInvokedOnce == \A j \in 1..Len(outbox) : Invocations(j) <= 1

\* C40 amended: each of the two workers invokes provider.send at most once
\* for the row, so there are at most two invocations; they carry the row's
\* key, so the provider holds at most one message for the row and every send
\* returns that message's id.
C40_SendOncePerWorker ==
  \A j \in 1..Len(outbox) :
     /\ \A d \in Deliverers : SendsFor(d, j) <= 1
     /\ Cardinality(MessagesOf(j)) <= 1
     /\ \A d \in Deliverers : \A id \in IdsReturned(d, j) :
          \E m \in MessagesOf(j) : m.id = id

\* C40 witness: both workers read the row unsent, both have invoked send for
\* it and returned "sent" with one id; the row is sent and the provider
\* holds one message.
C40_Witness ==
  \E j \in 1..Len(outbox) :
     /\ Invocations(j) = 2
     /\ \A d \in Deliverers : dl[d].pc = "done" /\ IdsReturned(d, j) # {}
     /\ IdsReturned("d1", j) = IdsReturned("d2", j)
     /\ outbox[j].status = "sent"
     /\ Cardinality(MessagesOf(j)) = 1

InPartition(r, part) ==
  r.changelist_id = part[1] /\ r.review_version = part[2]

\* C31: deliver_pending processes the unsent rows of one (changelist_id,
\* review_version) partition in (recipient ASC, id ASC) order: the list it
\* returns names each row that was unsent in the partition once, every row
\* in it comes before the next one by recipient and then by id, and the
\* provider.send calls were made for the recipients of those rows in the same
\* order; while the call runs no row of another partition changes and no
\* message is sent for one.
C31_DeliverPendingOrder ==
  /\ [] ( prev.op = "deliver_pending" =>
            /\ Len(prev.results) = Len(prev.seen)
            /\ Len(prev.sends) = Len(prev.results)
            /\ \A k \in 1..Len(prev.results) :
                  LET j == prev.results[k].row_id
                  IN  /\ j \in 1..Len(outbox)
                      /\ InPartition(outbox[j], prev.part)
                      /\ prev.sends[k] = outbox[j].recipient
            /\ \A k, l \in 1..Len(prev.results) :
                  k < l =>
                    LET a == prev.results[k].row_id
                        b == prev.results[l].row_id
                    IN  \/ RecipientRank(outbox[a].recipient)
                             < RecipientRank(outbox[b].recipient)
                        \/ /\ outbox[a].recipient = outbox[b].recipient
                           /\ a < b )
  /\ [][ ( dl["d1"].mode = "pending" /\ dl["d1"].pc \notin {"idle", "done"} )
         => /\ Len(outbox') = Len(outbox)
            /\ \A j \in 1..Len(outbox) :
                  ~InPartition(outbox[j], dl["d1"].part) =>
                    /\ outbox'[j] = outbox[j]
                    /\ {m \in provider'.sent : m.row = j}
                         = {m \in provider.sent : m.row = j}
            /\ \A j \in 1..Len(outbox) :
                  ( InPartition(outbox[j], dl["d1"].part)
                    /\ outbox[j].notified_at = NULL
                    /\ dl'["d1"].pc = "done" )
                  => outbox'[j].notified_at # NULL
     ]_vars

\* C31 witness: a deliver_pending call has returned two results, the row with
\* the higher id first because its recipient sorts first, while a row of
\* another partition stays unsent.
C31_Witness ==
  /\ prev.op = "deliver_pending"
  /\ Len(prev.results) = 2
  /\ prev.results[1].row_id > prev.results[2].row_id
  /\ prev.sends = <<"a", "b">>
  /\ \E j \in 1..Len(outbox) :
        /\ ~InPartition(outbox[j], prev.part)
        /\ outbox[j].notified_at = NULL
        /\ j < prev.results[1].row_id

C32_FirstWriteWins ==
  [][ /\ Len(outbox') >= Len(outbox)
      /\ \A j \in 1..Len(outbox) :
            /\ outbox'[j].payload = outbox[j].payload
            /\ outbox'[j].idempotency_key = outbox[j].idempotency_key
            /\ SameTriple(outbox'[j], outbox[j])
            /\ dl' = dl => outbox'[j] = outbox[j]
    ]_vars

\* C32 witness: the latest call was a prepare for a recipient whose row is
\* sent and holds another payload than the call brought, next to a recipient
\* whose row the call created with its own payload.
C32_Witness ==
  /\ prev.op = "prepare_rows"
  /\ Len(jobs) > 0
  /\ \E i, j \in 1..Len(outbox) :
        /\ InPartition(outbox[i], prev.part)
        /\ InPartition(outbox[j], prev.part)
        /\ \E k \in 1..Len(prev.recipients) : prev.recipients[k] = outbox[i].recipient
        /\ \E k \in 1..Len(prev.recipients) : prev.recipients[k] = outbox[j].recipient
        /\ outbox[i].status = "sent"
        /\ outbox[i].notified_at # NULL
        /\ outbox[i].payload # prev.payload
        /\ outbox[j].payload = prev.payload
        /\ outbox[j].status = "queued"

\* ------------------------------------------------------- failure pipeline

MaxRuns == 1
MaxDead == 1
MaxReplays == 2

\* FailureHandlingPipeline(conn, stages=[...]), as the tests configure it.
Stages == <<"ingest", "enrich", "publish">>
StageNames == {Stages[i] : i \in 1..Len(Stages)}
\* completed_stages as callers pass it: every run of consecutive stages, the
\* empty list, and lists out of order or with a stage twice.
StageLists ==
  {SubSeq(Stages, i, j) : i, j \in 1..Len(Stages)}
    \cup {<<"publish", "enrich">>, <<"enrich", "enrich">>,
          <<"ingest", "publish">>, <<"enrich", "publish", "publish">>}
ErrorClasses == {"PolicyError", "ValidationError"}

NoFres ==
  [op |-> "none", id |-> 0, full |-> FALSE, completed |-> <<>>,
   error_class |-> "", retryable |-> FALSE, raised |-> "",
   restart_stage |-> ""]

InitFP ==
  /\ runs = <<>>
  /\ dead = <<>>
  /\ fres = NoFres

\* create_run(payload_ref)
CreateRun ==
  /\ Len(runs) < MaxRuns
  /\ runs' = Append(runs, [current_stage |-> Stages[1], status |-> "running"])
  /\ fres' = [NoFres EXCEPT !.op = "create_run", !.id = Len(runs) + 1]
  /\ UNCHANGED <<dead, othersFP>>

\* A new dead_letter_entries row.  first_class is not a column: it keeps the
\* error_class that record_failure recorded, for the claims to refer to.
NewDeadLetter(run, stage, class) ==
  [run_id |-> run, failed_stage |-> stage, error_class |-> class,
   first_class |-> class, remediation_evidence |-> NULL,
   replay_start_stage |-> NULL, replay_count |-> 0, status |-> "open",
   escalated_at |-> NULL, resolved_at |-> NULL]

\* record_failure(run_id, failed_stage, error_class, ..., retryable)
RecordFailure(run, stage, class, retryable) ==
  /\ run \in 1..Len(runs)
  /\ stage \in StageNames
  /\ retryable \/ Len(dead) < MaxDead
  /\ runs' = [runs EXCEPT ![run] = [current_stage |-> stage, status |-> "failed"]]
  /\ dead' = IF retryable THEN dead
             ELSE Append(dead, NewDeadLetter(run, stage, class))
  /\ fres' = [NoFres EXCEPT !.op = "record_failure",
                            !.id = IF retryable THEN 0 ELSE Len(dead) + 1,
                            !.error_class = class, !.retryable = retryable]
  /\ UNCHANGED othersFP

\* record_remediation_evidence(dead_letter_id, operator_id, evidence)
RecordRemediationEvidence(d) ==
  /\ d \in 1..Len(dead)
  /\ dead' = [dead EXCEPT ![d].remediation_evidence = {"operator=o; evidence=e"}]
  /\ fres' = [NoFres EXCEPT !.op = "record_remediation_evidence", !.id = d]
  /\ UNCHANGED <<runs, othersFP>>

\* Mutant: the gate that lets a replay start without evidence.
NoGate(row) == FALSE

\* if dead_letter["remediation_evidence"] is None: raise ValueError
EvidenceMissing(row) == row.remediation_evidence = NULL

\* Mutant: the restart stage taken from the dead letter whatever full_restart.
RestartStageAlwaysFailed(row, full) == row.failed_stage

\* restart_stage = self.stages[0] if full_restart else dead_letter["failed_stage"]
RestartStage(row, full) == IF full THEN Stages[1] ELSE row.failed_stage

\* start_replay(dead_letter_id, full_restart)
StartReplay(d, full) ==
  /\ d \in 1..Len(dead)
  /\ IF EvidenceMissing(dead[d])
     THEN /\ fres' = [NoFres EXCEPT !.op = "start_replay", !.id = d, !.full = full,
                        !.raised = "remediation evidence required before replay"]
          /\ UNCHANGED <<runs, dead>>
     ELSE /\ dead[d].replay_count < MaxReplays
          /\ dead' = [dead EXCEPT ![d].status = "replaying",
                        ![d].replay_start_stage = {RestartStage(dead[d], full)},
                        ![d].replay_count = @ + 1]
          /\ runs' = [runs EXCEPT ![dead[d].run_id] =
                        [current_stage |-> RestartStage(dead[d], full),
                         status |-> "running"]]
          /\ fres' = [NoFres EXCEPT !.op = "start_replay", !.id = d, !.full = full,
                        !.restart_stage = RestartStage(dead[d], full)]
  /\ UNCHANGED othersFP

\* self.stages.index(restart_stage)
RECURSIVE IndexFrom(_, _, _)
IndexFrom(seq, x, i) ==
  IF i > Len(seq) THEN 0
  ELSE IF seq[i] = x THEN i
  ELSE IndexFrom(seq, x, i + 1)

StageIndex(stage) == IndexFrom(Stages, stage, 1)

\* restart_stage = dead_letter["replay_start_stage"] or dead_letter["failed_stage"]
ReplayRestartStage(row) ==
  IF row.replay_start_stage = NULL THEN row.failed_stage
  ELSE CHOOSE s \in row.replay_start_stage : TRUE

\* Mutant: the slice taken from the failed stage whatever the restart stage.
ExpectedFromFailedStage(row) ==
  SubSeq(Stages, StageIndex(row.failed_stage), Len(Stages))

\* expected = self.stages[self.stages.index(restart_stage):]
Expected(row) == SubSeq(Stages, StageIndex(ReplayRestartStage(row)), Len(Stages))

\* complete_replay(dead_letter_id, completed_stages, resolution_notes)
CompleteReplay(d, completed) ==
  /\ d \in 1..Len(dead)
  /\ IF completed # Expected(dead[d])
     THEN /\ fres' = [NoFres EXCEPT !.op = "complete_replay", !.id = d,
                        !.completed = completed,
                        !.raised = "downstream completion verification failed"]
          /\ UNCHANGED <<runs, dead>>
     ELSE /\ runs' = [runs EXCEPT ![dead[d].run_id] =
                        [current_stage |-> Expected(dead[d])[Len(Expected(dead[d]))],
                         status |-> "completed"]]
          /\ dead' = [dead EXCEPT ![d].status = "resolved",
                                   ![d].resolved_at = {now}]
          /\ fres' = [NoFres EXCEPT !.op = "complete_replay", !.id = d,
                                    !.completed = completed]
  /\ UNCHANGED othersFP

\* escalated = (not retryable) and error_class == dead_letter["error_class"]
Escalated(row, class, retryable) == ~retryable /\ class = row.error_class

\* Mutant: the run left at the stage the replay restarted from.
FailedRunAtRestartStage(row) ==
  [current_stage |-> ReplayRestartStage(row), status |-> "failed"]

\* UPDATE pipeline_runs SET status = 'failed', current_stage = failed_stage
FailedRun(row) == [current_stage |-> row.failed_stage, status |-> "failed"]

\* fail_replay(dead_letter_id, error_class, ..., retryable)
FailReplay(d, class, retryable) ==
  /\ d \in 1..Len(dead)
  /\ runs' = [runs EXCEPT ![dead[d].run_id] = FailedRun(dead[d])]
  /\ dead' = [dead EXCEPT
                ![d].status = IF Escalated(dead[d], class, retryable)
                              THEN "escalated" ELSE "open",
                ![d].error_class = class,
                ![d].escalated_at = IF Escalated(dead[d], class, retryable)
                                    THEN {now} ELSE @]
  /\ fres' = [NoFres EXCEPT !.op = "fail_replay", !.id = d,
                            !.error_class = class, !.retryable = retryable]
  /\ UNCHANGED othersFP

NextFP ==
  \/ CreateRun
  \/ \E run \in 1..Len(runs), stage \in StageNames, class \in ErrorClasses,
        retryable \in BOOLEAN : RecordFailure(run, stage, class, retryable)
  \/ \E d \in 1..Len(dead) : RecordRemediationEvidence(d)
  \/ \E d \in 1..Len(dead), full \in BOOLEAN : StartReplay(d, full)
  \/ \E d \in 1..Len(dead), completed \in StageLists : CompleteReplay(d, completed)
  \/ \E d \in 1..Len(dead), class \in ErrorClasses, retryable \in BOOLEAN :
        FailReplay(d, class, retryable)

\* Callers that keep to the state machine: a replay is started on an open
\* dead letter and completed or failed while it is replaying.
NextFPRounds ==
  \/ CreateRun
  \/ \E run \in 1..Len(runs), stage \in StageNames, class \in ErrorClasses,
        retryable \in BOOLEAN : RecordFailure(run, stage, class, retryable)
  \/ \E d \in 1..Len(dead) : RecordRemediationEvidence(d)
  \/ \E d \in 1..Len(dead), full \in BOOLEAN :
        dead[d].status = "open" /\ StartReplay(d, full)
  \/ \E d \in 1..Len(dead), completed \in StageLists :
        dead[d].status = "replaying" /\ CompleteReplay(d, completed)
  \/ \E d \in 1..Len(dead), class \in ErrorClasses, retryable \in BOOLEAN :
        dead[d].status = "replaying" /\ FailReplay(d, class, retryable)

\* A run with one dead letter, on which record_failure is not called again:
\* replay calls in any order, going through or raising.
NextFPOne ==
  \/ CreateRun
  \/ \E run \in 1..Len(runs), stage \in StageNames, class \in ErrorClasses,
        retryable \in BOOLEAN :
        Len(dead) = 0 /\ RecordFailure(run, stage, class, retryable)
  \/ \E d \in 1..Len(dead) : RecordRemediationEvidence(d)
  \/ \E d \in 1..Len(dead), full \in BOOLEAN : StartReplay(d, full)
  \/ \E d \in 1..Len(dead), completed \in StageLists : CompleteReplay(d, completed)
  \/ \E d \in 1..Len(dead), class \in ErrorClasses, retryable \in BOOLEAN :
        FailReplay(d, class, retryable)

\* ---------------------------------------------- failure pipeline: claims

\* C16: a dead letter changes status only from open to replaying in
\* start_replay, from replaying to resolved in complete_replay and from
\* replaying to escalated or open in fail_replay; complete_replay and
\* fail_replay change no dead letter that is not replaying.
C16_DeadLetterEdges ==
  [][ \A d \in 1..Len(dead) :
        /\ dead'[d].status # dead[d].status =>
             \/ /\ fres'.op = "start_replay"
                /\ dead[d].status = "open" /\ dead'[d].status = "replaying"
             \/ /\ fres'.op = "complete_replay"
                /\ dead[d].status = "replaying" /\ dead'[d].status = "resolved"
             \/ /\ fres'.op = "fail_replay"
                /\ dead[d].status = "replaying"
                /\ dead'[d].status \in {"escalated", "open"}
        /\ ( /\ fres'.op \in {"complete_replay", "fail_replay"}
             /\ dead'[d] # dead[d] )
           => dead[d].status = "replaying"
    ]_vars

\* C17: start_replay on a dead letter with no remediation evidence raises
\* "remediation evidence required" and leaves the dead letter and the run as
\* they were.
C17_ReplayNeedsEvidence ==
  [][ ( /\ fres'.op = "start_replay"
        /\ dead[fres'.id].remediation_evidence = NULL )
      => /\ fres'.raised = "remediation evidence required before replay"
         /\ dead' = dead
         /\ runs' = runs
    ]_vars

\* C17 witness: a start_replay has been refused, after the run had failed.
C17_Witness ==
  /\ fres.op = "start_replay"
  /\ fres.raised = "remediation evidence required before replay"
  /\ dead[fres.id].status = "open"
  /\ runs[dead[fres.id].run_id].status = "failed"

\* C18: complete_replay goes through exactly when completed_stages is the
\* configured stage list from the replay's restart stage to its end; then
\* the run is completed at the last configured stage and the dead letter is
\* resolved with resolved_at set; otherwise it raises "downstream completion
\* verification failed" and leaves the run and the dead letter as they were.
C18_DownstreamVerified ==
  [][ fres'.op = "complete_replay" =>
        LET row == dead[fres'.id]
            restart == IF row.replay_start_stage # NULL
                       THEN CHOOSE st \in row.replay_start_stage : TRUE
                       ELSE row.failed_stage
            i == CHOOSE k \in 1..Len(Stages) : Stages[k] = restart
            suffix == [k \in 1..(Len(Stages) - i + 1) |-> Stages[i + k - 1]]
        IN  IF fres'.completed = suffix
            THEN /\ fres'.raised = ""
                 /\ runs'[row.run_id].status = "completed"
                 /\ runs'[row.run_id].current_stage = Stages[Len(Stages)]
                 /\ dead'[fres'.id].status = "resolved"
                 /\ dead'[fres'.id].resolved_at # NULL
            ELSE /\ fres'.raised = "downstream completion verification failed"
                 /\ runs' = runs
                 /\ dead' = dead
    ]_vars

\* C18 witness: a full restart of a failure at a later stage was completed
\* with the whole stage list.
C18_Witness ==
  /\ fres.op = "complete_replay"
  /\ fres.raised = ""
  /\ fres.completed = Stages
  /\ dead[fres.id].failed_stage = "enrich"
  /\ dead[fres.id].replay_start_stage = {"ingest"}
  /\ dead[fres.id].status = "resolved"

\* C30: a start_replay that goes through sets replay_start_stage to the first
\* configured stage under full_restart and to the dead letter's failed_stage
\* otherwise, sets the dead letter to replaying, adds exactly 1 to
\* replay_count and changes nothing else in it, sets the run to running at
\* that stage, and returns a plan naming that stage.
C30_StartReplayEffects ==
  [][ ( fres'.op = "start_replay" /\ fres'.raised = "" ) =>
        LET d == fres'.id
            stage == IF fres'.full THEN Stages[1] ELSE dead[d].failed_stage
        IN  /\ dead' = [dead EXCEPT ![d].status = "replaying",
                                    ![d].replay_start_stage = {stage},
                                    ![d].replay_count = dead[d].replay_count + 1]
            /\ runs' = [runs EXCEPT ![dead[d].run_id] =
                          [current_stage |-> stage, status |-> "running"]]
            /\ fres'.restart_stage = stage
    ]_vars

\* C30 witness: a second replay, a full restart of a dead letter that failed
\* at the last stage.
C30_Witness ==
  /\ fres.op = "start_replay"
  /\ fres.raised = ""
  /\ fres.full
  /\ fres.restart_stage = "ingest"
  /\ dead[fres.id].failed_stage = "publish"
  /\ dead[fres.id].replay_count = 2
  /\ runs[dead[fres.id].run_id].current_stage = "ingest"

\* C38: for a run with one dead letter on which record_failure is not called
\* again, after any sequence of start_replay, complete_replay and fail_replay
\* calls on the dead letter: while it is replaying the run is running at
\* replay_start_stage; while it is resolved the run is completed at the last
\* configured stage; while it is open or escalated the run is failed at the
\* dead letter's failed_stage.
C38_RunFollowsDeadLetter ==
  \A d \in 1..Len(dead) :
     LET run == runs[dead[d].run_id]
     IN  /\ dead[d].status = "replaying" =>
               /\ run.status = "running"
               /\ dead[d].replay_start_stage = {run.current_stage}
         /\ dead[d].status = "resolved" =>
               /\ run.status = "completed"
               /\ run.current_stage = Stages[Len(Stages)]
         /\ dead[d].status \in {"open", "escalated"} =>
               /\ run.status = "failed"
               /\ run.current_stage = dead[d].failed_stage

\* C38 witness: a dead letter that failed before the last stage is open
\* again after a fail_replay, having been resolved and escalated before and
\* restarted from the first stage.
C38_Witness ==
  /\ fres.op = "fail_replay"
  /\ \E d \in 1..Len(dead) :
        /\ fres.id = d
        /\ dead[d].status = "open"
        /\ dead[d].resolved_at # NULL
        /\ dead[d].escalated_at # NULL
        /\ dead[d].replay_start_stage = {Stages[1]}
        /\ dead[d].failed_stage = "enrich"
        /\ runs[dead[d].run_id].current_stage = "enrich"

\* C19: fail_replay leaves the dead letter escalated, with escalated_at set,
\* exactly when the new error is not retryable and of the error_class that
\* record_failure recorded for the dead letter, and open otherwise, however
\* many replay rounds with other error classes came before.
C19_EscalatesOnFirstClass ==
  [][ (fres'.op = "fail_replay" /\ dead[fres'.id].status = "replaying") =>
        LET d == fres'.id
        IN  IF ~fres'.retryable /\ fres'.error_class = dead[d].first_class
            THEN dead'[d].status = "escalated" /\ dead'[d].escalated_at # NULL
            ELSE dead'[d].status = "open"
    ]_vars

\* ------------------------------------------------------------ ingest glue

IdleIngest ==
  [pc |-> "idle", cl |-> 0, rv |-> 0, key |-> "", rerun |-> FALSE,
   priority |-> 0, status |-> "", job_id |-> NULL, queue_id |-> NULL,
   retried |-> FALSE]

InitIN == ing = [c \in Callers |-> IdleIngest]

\* ingest_change, first statement: fetch_change, which touches no table and
\* either returns the files or raises (path outside the allowlist, p4 failed).
IngestFetch(c, cl, rv, key, rerun, priority, fetched) ==
  /\ ing[c].pc = "idle"
  /\ proc[c].pc = "idle"
  /\ ing' = [ing EXCEPT ![c] =
               [IdleIngest EXCEPT !.pc = IF fetched THEN "submit" ELSE "raised",
                                  !.cl = cl, !.rv = rv, !.key = key,
                                  !.rerun = rerun, !.priority = priority]]
  /\ UNCHANGED <<wqVars, jdVars, obVars, fpVars, loopVars, vr>>

\* ingest_change calls submit_job with its own arguments.
IngestSubmit(c) ==
  /\ ing[c].pc = "submit"
  /\ SubmitBegin(c, ing[c].cl, ing[c].rv, ing[c].key, ing[c].rerun)

\* Mutant: the admission test taken on the job being there, not on created.
HasJob(p) == p.job > 0

\* if not submit.created: return ... queue_id=None
Admitted(p) == p.created

\* ingest_change after submit_job has returned: the refusal is passed on, or
\* the payload naming the job is enqueued.
IngestFinish(c) ==
  /\ ing[c].pc = "submit"
  /\ proc[c].pc = "done"
  /\ proc' = [proc EXCEPT ![c] = Idle]
  /\ IF Admitted(proc[c])
     THEN /\ wq' = Append(wq, [NewRow(ing[c].priority, now, now)
                                 EXCEPT !.payload = {proc[c].job}])
          /\ last' = [NoResult EXCEPT !.op = "enqueue", !.ret = Len(wq) + 1]
          /\ race' = NoRace
          /\ ing' = [ing EXCEPT ![c].pc = "done", ![c].status = "enqueued",
                                ![c].job_id = {proc[c].job},
                                ![c].queue_id = {Len(wq) + 1}]
     ELSE /\ ing' = [ing EXCEPT ![c].pc = "done", ![c].status = proc[c].status,
                                ![c].job_id = {proc[c].job}]
          /\ UNCHANGED <<wq, last, race>>
  /\ UNCHANGED <<now, jobs, obVars, fpVars, loopVars, vr>>

\* The caller takes the IngestResult, or the exception.
IngestReturn(c) ==
  /\ ing[c].pc \in {"done", "raised"}
  /\ ing' = [ing EXCEPT ![c] = IdleIngest]
  /\ UNCHANGED <<wqVars, jdVars, obVars, fpVars, loopVars, vr>>

\* The ingesting process dies after submit_job has committed the row it
\* created and before enqueue: the dispatch row stays, the locals are lost.
IngestCrash(c) ==
  /\ ing[c].pc = "submit"
  /\ proc[c].pc = "done"
  /\ proc[c].created
  /\ ~ing[c].retried
  /\ ing' = [ing EXCEPT ![c].pc = "crashed"]
  /\ proc' = [proc EXCEPT ![c] = Idle]
  /\ UNCHANGED <<wqVars, jobs, obVars, fpVars, loopVars, vr>>

\* The caller calls ingest_change again with the arguments of the call that
\* died; fetch_change returns the files as before.
IngestRetry(c) ==
  /\ ing[c].pc = "crashed"
  /\ ing' = [ing EXCEPT ![c].pc = "submit", ![c].retried = TRUE]
  /\ UNCHANGED <<wqVars, jdVars, obVars, fpVars, loopVars, vr>>

\* One ingest caller whose process may die between submit_job and enqueue,
\* and who then retries.
NextINCrash ==
  \/ \E rv \in Versions, key \in {"k1", "k2"}, rerun \in BOOLEAN,
        priority \in Priorities, fetched \in BOOLEAN :
        IngestFetch("c1", 1, rv, key, rerun, priority, fetched)
  \/ IngestSubmit("c1")
  \/ SubmitPrior("c1")
  \/ SubmitInsert("c1")
  \/ IngestFinish("c1")
  \/ IngestReturn("c1")
  \/ IngestCrash("c1")
  \/ IngestRetry("c1")

\* A call under way runs on to its end, and a caller whose call died retries;
\* nothing obliges the process to die.
FairINCrash ==
  /\ WF_vars(IngestSubmit("c1"))
  /\ WF_vars(SubmitPrior("c1"))
  /\ WF_vars(SubmitInsert("c1"))
  /\ WF_vars(IngestFinish("c1"))
  /\ WF_vars(IngestRetry("c1"))

\* Two ingest callers on one changelist; jobs succeed at any time.
NextIN ==
  \/ \E c \in Callers, rv \in Versions, key \in {"k1", "k2"}, rerun \in BOOLEAN,
        fetched \in BOOLEAN : IngestFetch(c, 1, rv, key, rerun, 0, fetched)
  \/ \E c \in Callers : IngestSubmit(c)
  \/ \E c \in Callers : SubmitPrior(c)
  \/ \E c \in Callers : SubmitInsert(c)
  \/ \E c \in Callers : IngestFinish(c)
  \/ \E c \in Callers : IngestReturn(c)
  \/ \E j \in 1..Len(jobs) : MarkSucceeded(j)

\* ---------------------------------------------------- ingest glue: claims

QueueRowsOf(rows, j) == {q \in 1..Len(rows) : rows[q].payload = {j}}

\* C20: the work queue holds at most one row naming a dispatch job; an
\* ingest_change whose submit_job did not create the job (it returned
\* duplicate_idempotency, already_succeeded_same_version, rerun_required or
\* stale_review_version) enqueues nothing and returns no queue_id, and one
\* whose submit_job created the job enqueues exactly one row, naming it.
C20_OneQueueRowPerJob ==
  [][ /\ \A j \in 1..Len(jobs') : Cardinality(QueueRowsOf(wq', j)) <= 1
      /\ \A c \in Callers :
            (ing[c].pc # "done" /\ ing'[c].pc = "done") =>
              IF proc[c].status = "created"
              THEN /\ ing'[c].status = "enqueued"
                   /\ Len(wq') = Len(wq) + 1
                   /\ ing'[c].queue_id = {Len(wq')}
                   /\ wq'[Len(wq')].payload = {proc[c].job}
                   /\ wq'[Len(wq')].status = "queued"
                   /\ \A q \in 1..Len(wq) : wq'[q] = wq[q]
              ELSE /\ ing'[c].status = proc[c].status
                   /\ ing'[c].status \in Refusals
                   /\ ing'[c].queue_id = NULL
                   /\ wq' = wq
    ]_vars

\* C20 witness: two ingests of one key have returned, one enqueued and one
\* duplicate_idempotency for the same job, and the queue holds one row.
C20_Witness ==
  \E c, e \in Callers :
     /\ ing[c].pc = "done" /\ ing[c].status = "enqueued"
     /\ ing[e].pc = "done" /\ ing[e].status = "duplicate_idempotency"
     /\ ing[e].job_id = ing[c].job_id
     /\ ing[e].queue_id = NULL
     /\ Len(wq) = 1
     /\ wq[1].payload = ing[c].job_id

\* C36: every dispatch row created by ingest_change eventually has a
\* work-queue row carrying its job_id, also when the ingesting process dies
\* between submit_job's commit and enqueue and the caller retries
\* ingest_change with the same idempotency key.
C36_EveryJobEnqueued ==
  \A j \in 1..MaxJobs :
     (Len(jobs) >= j) ~> (QueueRowsOf(wq, j) # {})

\* -------------------------------------------------------- worker runtime

\* WorkerRuntime(store, worker_id, now_fn): one runtime, of worker w1, with an
\* injected monotonic clock (the field mono of its frame).
RuntimeWorker == "w1"
RuntimeLeases == 1..MaxLease

Max(a, b) == IF a >= b THEN a ELSE b

\* heartbeat_every = max(1, lease_duration_seconds // 3)
HeartbeatEvery(d) == Max(1, d \div 3)

\* The frame of process_running_job: pc is idle (not called), top (at the
\* head of the loop), step (inside process_step) or done (returned).
IdleRT ==
  [pc |-> "idle", job |-> 0, lease |-> 0, heartbeat_every |-> 0,
   next_heartbeat_at |-> 0, events |-> <<>>, steps |-> 0, status |-> "",
   lease_lost |-> FALSE, mono |-> 0]

InitRT == rt = IdleRT

\* process_running_job(job_id, process_step, lease_duration_seconds), up to
\* the head of the loop
ProcessRunningJob(j, d) ==
  /\ rt.pc = "idle"
  /\ Exists(wq, j)
  /\ rt' = [rt EXCEPT !.pc = "top", !.job = j, !.lease = d,
                      !.heartbeat_every = HeartbeatEvery(d),
                      !.next_heartbeat_at = rt.mono + HeartbeatEvery(d)]
  /\ UNCHANGED <<wqVars, sw, pair, othersLoop>>

\* WorkerEvent(type="heartbeat_renewed", ...)
RenewedEvent(f) ==
  [type |-> "heartbeat_renewed", job_id |-> f.job, worker_id |-> RuntimeWorker,
   status |-> "running", diagnostics |-> NULL]

\* WorkerEvent(type="lease_lost", ..., payload={"status": "lease_lost",
\* "diagnostics": renewal.diagnostics})
LeaseLostEvent(f, renewal) ==
  [type |-> "lease_lost", job_id |-> f.job, worker_id |-> RuntimeWorker,
   status |-> "lease_lost",
   diagnostics |-> {[code |-> renewal.code, owner |-> renewal.owner,
                     status |-> renewal.from]}]

\* Mutant: the loop going on to process_step after a heartbeat that failed.
AfterRenewalGoesOn(f, renewal) ==
  IF renewal.ok
  THEN [f EXCEPT !.events = Append(f.events, RenewedEvent(f)),
                 !.next_heartbeat_at = f.mono + f.heartbeat_every,
                 !.pc = "step"]
  ELSE [f EXCEPT !.lease_lost = TRUE,
                 !.events = Append(f.events, LeaseLostEvent(f, renewal)),
                 !.pc = "step"]

\* if not renewal.ok: ... return WorkerRunResult(status="lease_lost", ...);
\* else the renewed event and the next deadline
AfterRenewal(f, renewal) ==
  IF renewal.ok
  THEN [f EXCEPT !.events = Append(f.events, RenewedEvent(f)),
                 !.next_heartbeat_at = f.mono + f.heartbeat_every,
                 !.pc = "step"]
  ELSE [f EXCEPT !.lease_lost = TRUE,
                 !.events = Append(f.events, LeaseLostEvent(f, renewal)),
                 !.status = "lease_lost",
                 !.pc = "done"]

\* if self.now_fn() >= next_heartbeat_at: the heartbeat and what follows it
RuntimeHeartbeat ==
  /\ rt.pc = "top"
  /\ rt.mono >= rt.next_heartbeat_at
  /\ HeartbeatCall(rt.job, RuntimeWorker, rt.lease)
  /\ rt' = AfterRenewal(rt, last')
  /\ UNCHANGED <<sw, pair, othersLoop>>

\* the same test when the deadline is not reached: on to process_step
RuntimeNoHeartbeat ==
  /\ rt.pc = "top"
  /\ rt.mono < rt.next_heartbeat_at
  /\ rt' = [rt EXCEPT !.pc = "step"]
  /\ UNCHANGED <<wqVars, sw, pair, othersLoop>>

\* if not process_step(): return processing_complete; else loop
ProcessStep(more) ==
  /\ rt.pc = "step"
  /\ rt.steps < MaxSteps
  /\ rt' = [rt EXCEPT !.steps = @ + 1,
                      !.pc = IF more THEN "top" ELSE "done",
                      !.status = IF more THEN "" ELSE "processing_complete"]
  /\ UNCHANGED <<wqVars, sw, pair, othersLoop>>

\* The monotonic clock behind now_fn moves on while the call runs.
MonoTick ==
  /\ rt.pc \in {"top", "step"}
  /\ rt.mono < MaxMono
  /\ rt' = [rt EXCEPT !.mono = @ + 1]
  /\ UNCHANGED <<wqVars, sw, pair, othersLoop>>

\* The runtime of w1, on the store's lease durations, next to the store
\* calls of both workers.
NextRT ==
  \/ Enqueue(0, NULL)
  \/ \E w \in Workers, d \in LeaseDurations : ClaimNext(w, d, NULL)
  \/ \E j \in JobIds, w \in Workers : Complete(j, w)
  \/ RequeueExpiredRunning
  \/ Tick
  \/ \E j \in JobIds, d \in LeaseDurations : ProcessRunningJob(j, d)
  \/ RuntimeHeartbeat
  \/ RuntimeNoHeartbeat
  \/ \E more \in BOOLEAN : ProcessStep(more)
  \/ MonoTick

\* The runtime of w1 on every lease duration up to MaxLease, on rows it has
\* claimed itself.
NextRTLeases ==
  \/ Enqueue(0, NULL)
  \/ \E d \in LeaseDurations : ClaimNext(RuntimeWorker, d, NULL)
  \/ \E j \in JobIds, d \in RuntimeLeases : ProcessRunningJob(j, d)
  \/ RuntimeHeartbeat
  \/ RuntimeNoHeartbeat
  \/ \E more \in BOOLEAN : ProcessStep(more)
  \/ MonoTick

\* ------------------------------------------------ worker runtime: claims

LeaseLostEvents(events) == {k \in 1..Len(events) : events[k].type = "lease_lost"}

\* C22: a step of process_running_job that adds an event is a heartbeat of
\* the runtime's worker on its job; if that heartbeat fails the event is
\* lease_lost with the heartbeat's diagnostics, the call returns lease_lost
\* and the frame never changes again (no further process_step, no further
\* event); a run holds a lease_lost event exactly when it returned
\* lease_lost, and then exactly one; and the only store call a step of the
\* runtime makes is heartbeat.
C22_LeaseLostStopsRun ==
  /\ [][ /\ Len(rt'.events) # Len(rt.events) =>
              /\ Len(rt'.events) = Len(rt.events) + 1
              /\ last'.op = "heartbeat"
              /\ last'.job = rt.job
              /\ last'.worker = RuntimeWorker
              /\ IF last'.ok
                 THEN /\ rt'.events[Len(rt'.events)].type = "heartbeat_renewed"
                      /\ rt'.pc = "step"
                 ELSE /\ rt'.events[Len(rt'.events)].type = "lease_lost"
                      /\ rt'.events[Len(rt'.events)].diagnostics =
                           {[code |-> last'.code, owner |-> last'.owner,
                             status |-> last'.from]}
                      /\ rt'.pc = "done"
                      /\ rt'.status = "lease_lost"
                      /\ rt'.lease_lost
         /\ rt.status = "lease_lost" => rt' = rt
         /\ rt' # rt => (last'.op = "heartbeat" \/ (wq' = wq /\ last' = last))
     ]_vars
  /\ [](Cardinality(LeaseLostEvents(rt.events))
          = IF rt.status = "lease_lost" THEN 1 ELSE 0)

\* C22 witness: a run that renewed once, went through process_step and then
\* lost the lease to the other worker.
C22_Witness ==
  /\ rt.status = "lease_lost"
  /\ Len(rt.events) = 2
  /\ rt.events[1].type = "heartbeat_renewed"
  /\ rt.steps >= 1
  /\ \E e \in rt.events[2].diagnostics : e.code = "not_owner"

\* C24: the renewal interval a run uses is the ceiling of lease_duration / 3.
C24_RenewalInterval ==
  rt.pc # "idle" =>
    /\ 3 * rt.heartbeat_every >= rt.lease
    /\ 3 * (rt.heartbeat_every - 1) < rt.lease

\* ---------------------------------------------------------- sweeper loop

\* iterations: None, or an integer (0 is refused).
IterationInputs == {NULL} \cup {{n} : n \in 0..MaxIterations}

\* The frame of run_sweeper_loop: pc is idle, loop (at the while test),
\* sleep (inside sleep_fn), done (returned its report) or raised.
IdleSW ==
  [pc |-> "idle", iterations |-> NULL, emit |-> FALSE,
   completed_iterations |-> 0, total_requeued |-> 0, events |-> <<>>,
   sleeps |-> 0]

InitSW == sw = IdleSW

\* run_sweeper_loop(db_path, interval_seconds, iterations, sleep_fn, emit_fn),
\* up to the loop: the two validations.  valid says interval_seconds > 0,
\* emit that an emit_fn is given.
RunSweeperLoop(iterations, valid, emit) ==
  /\ sw.pc = "idle"
  /\ sw' = [IdleSW EXCEPT
              !.pc = IF ~valid \/ (\E n \in iterations : n <= 0)
                     THEN "raised" ELSE "loop",
              !.iterations = iterations, !.emit = emit]
  /\ UNCHANGED <<wqVars, rt, pair, othersLoop>>

\* while iterations is None or completed_iterations < iterations
MoreIterations(iterations, completed) ==
  iterations = NULL \/ \E n \in iterations : completed < n

\* Mutant: a sleep after every sweep.
SleepAlways(iterations, completed) == TRUE

\* if iterations is None or completed_iterations < iterations: sleep_fn(...)
SleepNeeded(iterations, completed) ==
  iterations = NULL \/ \E n \in iterations : completed < n

\* {"code": "work_queue_sweep", "ok", "rows_requeued", "iteration"}
SweepEvent(result, iteration) ==
  [code |-> "work_queue_sweep", ok |-> result.ok,
   rows_requeued |-> result.rows, iteration |-> iteration]

\* One pass of the loop body up to the sleep: sweep_once, the counters, the
\* event.  A loop with iterations unset is followed for MaxIterations + 1
\* passes.
SweepIteration ==
  /\ sw.pc = "loop"
  /\ MoreIterations(sw.iterations, sw.completed_iterations)
  /\ sw.completed_iterations <= MaxIterations
  /\ RequeueCall
  /\ LET c == sw.completed_iterations + 1
     IN  sw' = [sw EXCEPT
                  !.completed_iterations = c,
                  !.total_requeued = @ + last'.rows,
                  !.events = IF sw.emit THEN Append(@, SweepEvent(last', c)) ELSE @,
                  !.pc = IF SleepNeeded(sw.iterations, c) THEN "sleep" ELSE "loop"]
  /\ UNCHANGED <<rt, pair, othersLoop>>

\* sleep_fn(interval_seconds) returns
SweeperSleep ==
  /\ sw.pc = "sleep"
  /\ sw' = [sw EXCEPT !.sleeps = @ + 1, !.pc = "loop"]
  /\ UNCHANGED <<wqVars, rt, pair, othersLoop>>

\* return SweeperReport(iterations=completed_iterations, total_requeued=...)
SweeperReturn ==
  /\ sw.pc = "loop"
  /\ ~MoreIterations(sw.iterations, sw.completed_iterations)
  /\ sw' = [sw EXCEPT !.pc = "done"]
  /\ UNCHANGED <<wqVars, rt, pair, othersLoop>>

\* The sweeper loop next to workers that claim and a clock that runs.
NextSW ==
  \/ Enqueue(0, NULL)
  \/ \E d \in LeaseDurations : ClaimNext("w1", d, NULL)
  \/ Tick
  \/ \E it \in IterationInputs, valid \in BOOLEAN, emit \in BOOLEAN :
        RunSweeperLoop(it, valid, emit)
  \/ SweepIteration
  \/ SweeperSleep
  \/ SweeperReturn

\* ------------------------------------------------- sweeper loop: claims

RECURSIVE SumRequeued(_)
SumRequeued(events) ==
  IF events = <<>> THEN 0
  ELSE events[1].rows_requeued + SumRequeued(Tail(events))

\* C27: a loop started with iterations = n > 0 and an emit function ends,
\* and when it has ended it has made n sweeps, emitted n work_queue_sweep
\* events numbered 1..n in order, slept n - 1 times, and reports
\* total_requeued as the sum of the events' rows_requeued; each pass is one
\* requeue_expired_running whose count goes into the total; and after the
\* return nothing more happens in the loop.
C27_SweeperLoopCounts ==
  /\ [](\A n \in 1..MaxIterations :
          (sw.pc = "done" /\ sw.iterations = {n} /\ sw.emit) =>
             /\ sw.completed_iterations = n
             /\ Len(sw.events) = n
             /\ \A k \in 1..n : /\ sw.events[k].code = "work_queue_sweep"
                                /\ sw.events[k].iteration = k
             /\ sw.sleeps = n - 1
             /\ sw.total_requeued = SumRequeued(sw.events))
  /\ [][ /\ sw'.completed_iterations # sw.completed_iterations =>
              /\ sw'.completed_iterations = sw.completed_iterations + 1
              /\ last'.op = "requeue_expired_running"
              /\ last'.rows = Cardinality(ExpiredIds(wq, now))
              /\ sw'.total_requeued = sw.total_requeued + last'.rows
         /\ sw.pc = "done" => sw' = sw
     ]_vars
  /\ \A n \in 1..MaxIterations :
        (sw.pc = "loop" /\ sw.iterations = {n}) ~> (sw.pc = "done")

\* C27 witness: a loop of two iterations has returned, having requeued a row
\* in its second sweep.
C27_Witness ==
  /\ sw.pc = "done"
  /\ sw.emit
  /\ sw.iterations = {2}
  /\ sw.events[2].rows_requeued = 1
  /\ sw.sleeps = 1

\* ------------------------------------- a sweep and a claim_next together

\* The harness of the concurrency test: a sweeper and a claimer released
\* together on a running row whose lease has lapsed, at one clock reading.
\* alone says that row was the only one a claim_next could return; first,
\* which of the two calls ran first.
IdlePair ==
  [pc |-> "idle", job |-> 0, claimer |-> "", alone |-> FALSE, first |-> "",
   swept |-> -1, got |-> -1]

InitPair == pair = IdlePair

PairBegin(j, w) ==
  /\ pair.pc = "idle"
  /\ Exists(wq, j)
  /\ Expired(wq[j], now)
  /\ wq[j].claimed_by # {w}
  /\ pair' = [IdlePair EXCEPT
                !.pc = "open", !.job = j, !.claimer = w,
                !.alone = (Eligible(RequeueRows(wq, now), now, NULL) = {j})]
  /\ UNCHANGED <<wqVars, rt, sw, othersLoop>>

PairClosed(p) == IF p.swept # -1 /\ p.got # -1 THEN "done" ELSE "open"

\* results["requeue"] = store1.requeue_expired_running().rows_affected
PairSweep ==
  /\ pair.pc = "open"
  /\ pair.swept = -1
  /\ RequeueCall
  /\ pair' = [pair EXCEPT
                !.swept = last'.rows,
                !.first = IF pair.got = -1 THEN "sweep" ELSE @,
                !.pc = PairClosed([pair EXCEPT !.swept = last'.rows])]
  /\ UNCHANGED <<rt, sw, othersLoop>>

\* row = store2.claim_next("claimer", lease_duration_seconds=...)
PairClaimNext(d) ==
  /\ pair.pc = "open"
  /\ pair.got = -1
  /\ ClaimNextCall(pair.claimer, d, NULL)
  /\ pair' = [pair EXCEPT
                !.got = last'.ret,
                !.first = IF pair.swept = -1 THEN "claim" ELSE @,
                !.pc = PairClosed([pair EXCEPT !.got = last'.ret])]
  /\ UNCHANGED <<rt, sw, othersLoop>>

\* Both threads joined and the assertions read.
PairEnd ==
  /\ pair.pc = "done"
  /\ pair' = IdlePair
  /\ UNCHANGED <<wqVars, rt, sw, othersLoop>>

\* Pairs released on the states the store reaches; nothing else runs while
\* a pair is open.
NextPair ==
  \/ \E p \in Priorities, r \in RunAtInputs : pair.pc = "idle" /\ Enqueue(p, r)
  \/ \E w \in Workers, d \in LeaseDurations :
        pair.pc = "idle" /\ ClaimNext(w, d, NULL)
  \/ pair.pc = "idle" /\ Tick
  \/ \E j \in JobIds, w \in Workers : PairBegin(j, w)
  \/ PairSweep
  \/ \E d \in LeaseDurations : PairClaimNext(d)
  \/ PairEnd

\* C25: when a sweep and a claim_next by another worker have both run on a
\* running row with a lapsed lease, the only row the claimer could get, then
\* in either order the row is running, owned by the claimer, under a lease
\* granted now, the claimer got that row, and the sweeper requeued 1 row if
\* it ran first and 0 rows if it ran second.
C25_SweepAndClaimNext ==
  (pair.pc = "done" /\ pair.alone) =>
    /\ pair.got = pair.job
    /\ wq[pair.job].status = "running"
    /\ wq[pair.job].claimed_by = {pair.claimer}
    /\ \E l \in wq[pair.job].lease_expires_at : l > now
    /\ wq[pair.job].started_at = {now}
    /\ pair.swept \in {0, 1}
    /\ pair.swept = IF pair.first = "sweep" THEN 1 ELSE 0

\* C25 witness: the claimer ran first and the sweeper found nothing left.
C25_Witness ==
  /\ pair.pc = "done"
  /\ pair.alone
  /\ pair.first = "claim"
  /\ pair.swept = 0
  /\ pair.got = pair.job

\* ---------------------------------------------- review-result validation

\* The characters a version text is written with: the digits up to MaxDigit
\* and the dot.
DigitChars == <<"0", "1", "2", "3", "4", "5", "6", "7", "8", "9">>
Digits == {DigitChars[i] : i \in 1..(MaxDigit + 1)}
Chars == Digits \cup {"."}
Texts(n) == UNION {[1..k -> Chars] : k \in 1..n}

SUPPORTED_SCHEMA_VERSION == <<"1", ".", "0">>
SUPPORTED_PROMPT_VERSION == <<"1", ".", "0", ".", "0">>

\* Version texts are drawn no longer than the supported version's own text.
MaxSchemaLen == Len(SUPPORTED_SCHEMA_VERSION)
MaxPromptLen == Len(SUPPORTED_PROMPT_VERSION)

DigitValue(c) == CHOOSE v \in 0..9 : DigitChars[v + 1] = c

\* int(match.group(n))
RECURSIVE ParseInt(_)
ParseInt(ds) ==
  IF ds = <<>> THEN 0
  ELSE 10 * ParseInt(SubSeq(ds, 1, Len(ds) - 1)) + DigitValue(ds[Len(ds)])

\* The maximal runs of characters between the dots of a text.
RECURSIVE Groups(_)
Groups(text) ==
  IF \A k \in 1..Len(text) : text[k] # "." THEN <<text>>
  ELSE LET dot == CHOOSE k \in 1..Len(text) :
                     text[k] = "." /\ \A m \in 1..(k - 1) : text[m] # "."
       IN  <<SubSeq(text, 1, dot - 1)>> \o Groups(SubSeq(text, dot + 1, Len(text)))

\* \d+
Number(g) == g # <<>> /\ \A k \in 1..Len(g) : g[k] \in Digits

\* _parse_schema_version: ^(\d+)\.(\d+)$ and the two groups as integers;
\* no match gives None (NULL).
ParseSchemaVersion(text) ==
  LET g == Groups(text)
  IN  IF Len(g) = 2 /\ \A k \in 1..2 : Number(g[k])
      THEN {<<ParseInt(g[1]), ParseInt(g[2])>>}
      ELSE NULL

\* _parse_prompt_version: ^(\d+)\.(\d+)(?:\.(\d+))?$, a missing patch read
\* as 0.
ParsePromptVersion(text) ==
  LET g == Groups(text)
  IN  IF Len(g) \in {2, 3} /\ \A k \in 1..Len(g) : Number(g[k])
      THEN {<<ParseInt(g[1]), ParseInt(g[2]),
              IF Len(g) = 3 THEN ParseInt(g[3]) ELSE 0>>}
      ELSE NULL

\* Mutant: the schema policy asking for the very same minor.
SchemaIncompatibleExact(parsed, supported) == parsed # supported

\* parsed[0] != supported[0] or parsed[1] < supported[1]
SchemaIncompatible(parsed, supported) ==
  parsed[1] # supported[1] \/ parsed[2] < supported[2]

\* Mutant: the prompt policy asking for the very same patch.
PromptIncompatibleExact(parsed, supported) == parsed # supported

\* parsed[:2] != supported[:2]
PromptIncompatible(parsed, supported) ==
  SubSeq(parsed, 1, 2) # SubSeq(supported, 1, 2)

\* ValidationOutcome and its first diagnostic: a rejected payload has one
\* diagnostic, a payload accepted with no findings has none.
Reject(f, code, field, reason) ==
  [f EXCEPT !.pc = "done", !.rejected = TRUE, !.code = code,
            !.field = field, !.reason = reason]

IdleVR ==
  [pc |-> "idle", schema_version |-> <<>>, prompt_version |-> <<>>,
   rejected |-> FALSE, code |-> "", field |-> "", reason |-> ""]

InitVR == vr = IdleVR

\* validate_and_reconcile_review_result on the payload {schema_version,
\* prompt_version, findings: []}: the call is at its schema_version check.
InitVRInputs ==
  vr \in {[IdleVR EXCEPT !.pc = "schema", !.schema_version = s,
                         !.prompt_version = p] :
            s \in Texts(MaxSchemaLen), p \in Texts(MaxPromptLen)}

\* The schema_version checks: format, then compatibility.
CheckSchemaVersion ==
  /\ vr.pc = "schema"
  /\ LET parsed == ParseSchemaVersion(vr.schema_version)
         supported == ParseSchemaVersion(SUPPORTED_SCHEMA_VERSION)
     IN  vr' = IF parsed = NULL
               THEN Reject(vr, "schema_mismatch", "schema_version",
                           "invalid_schema_version_format")
               ELSE IF \E a \in parsed, b \in supported : SchemaIncompatible(a, b)
               THEN Reject(vr, "incompatible_version", "schema_version",
                           "unsupported_schema_version")
               ELSE [vr EXCEPT !.pc = "prompt"]
  /\ UNCHANGED <<wqVars, jdVars, obVars, fpVars, ing, loopVars>>

\* The prompt_version checks: format, then compatibility; then the empty
\* findings list is kept and the payload accepted.
CheckPromptVersion ==
  /\ vr.pc = "prompt"
  /\ LET parsed == ParsePromptVersion(vr.prompt_version)
         supported == ParsePromptVersion(SUPPORTED_PROMPT_VERSION)
     IN  vr' = IF parsed = NULL
               THEN Reject(vr, "schema_mismatch", "prompt_version",
                           "invalid_prompt_version_format")
               ELSE IF \E a \in parsed, b \in supported : PromptIncompatible(a, b)
               THEN Reject(vr, "incompatible_version", "prompt_version",
                           "unsupported_prompt_version")
               ELSE [vr EXCEPT !.pc = "done", !.rejected = FALSE]
  /\ UNCHANGED <<wqVars, jdVars, obVars, fpVars, ing, loopVars>>

NextVR ==
  \/ CheckSchemaVersion
  \/ CheckPromptVersion

\* -------------------------------------- review-result validation: claims

\* The decimal text of a number below 100.
Decimal(n) ==
  IF n < 10 THEN <<DigitChars[n + 1]>>
  ELSE <<DigitChars[(n \div 10) + 1], DigitChars[(n % 10) + 1]>>

NumberRange == 0..(10 * MaxDigit + MaxDigit)

\* Every text of the range that is a well-formed schema_version or
\* prompt_version, with the numbers it is written from.
SchemaTexts ==
  {t \in {[text |-> Decimal(maj) \o <<".">> \o Decimal(min),
           major |-> maj, minor |-> min] : maj, min \in NumberRange} :
     Len(t.text) <= MaxSchemaLen}

PromptTexts ==
  {t \in {[text |-> Decimal(maj) \o <<".">> \o Decimal(min),
           major |-> maj, minor |-> min] : maj, min \in NumberRange}
         \cup
         {[text |-> Decimal(maj) \o <<".">> \o Decimal(min)
                      \o <<".">> \o Decimal(patch),
           major |-> maj, minor |-> min] : maj, min, patch \in NumberRange} :
     Len(t.text) <= MaxPromptLen}

\* C33: version compatibility of a review result, for all major, minor and
\* patch numbers of the range: the payload passes its schema_version
\* "major.minor" exactly when major = 1 and minor >= 0, and is otherwise
\* rejected with incompatible_version on schema_version; past that, a
\* prompt_version "major.minor" or "major.minor.patch" is accepted exactly
\* when major = 1 and minor = 0, whatever the patch, and is otherwise rejected
\* with incompatible_version on prompt_version.
C33_VersionCompatibility ==
  vr.pc = "done" =>
    /\ \A t \in SchemaTexts :
          vr.schema_version = t.text =>
            IF t.major = 1 /\ t.minor >= 0
            THEN vr.field # "schema_version"
            ELSE /\ vr.rejected
                 /\ vr.code = "incompatible_version"
                 /\ vr.field = "schema_version"
    /\ vr.field # "schema_version" =>
          \A t \in PromptTexts :
            vr.prompt_version = t.text =>
               IF t.major = 1 /\ t.minor = 0
               THEN ~vr.rejected /\ vr.code = ""
               ELSE /\ vr.rejected
                    /\ vr.code = "incompatible_version"
                    /\ vr.field = "prompt_version"

\* C33 witness: schema_version "1.2" with prompt_version "1.0.2" has been
\* accepted.
C33_Witness ==
  /\ vr.pc = "done"
  /\ ~vr.rejected
  /\ vr.schema_version = <<"1", ".", "2">>
  /\ vr.prompt_version = <<"1", ".", "0", ".", "2">>

Init ==
  /\ InitWQ /\ InitJD /\ InitOB /\ InitFP /\ InitIN /\ InitRT /\ InitSW
  /\ InitPair /\ InitVR /\ InitLapse

\* Every store empty and every version text a payload may carry.
InitInputs ==
  /\ InitWQ /\ InitJD /\ InitOB /\ InitFP /\ InitIN /\ InitRT /\ InitSW
  /\ InitPair /\ InitVRInputs /\ InitLapse

SpecVR == InitInputs /\ [][NextVR]_vars


SpecSW ==
  Init /\ [][NextSW]_vars
       /\ WF_vars(SweepIteration) /\ WF_vars(SweeperSleep) /\ WF_vars(SweeperReturn)

SpecPair == Init /\ [][NextPair]_vars

SpecRT == Init /\ [][NextRT]_vars

SpecRTLeases == Init /\ [][NextRTLeases]_vars

SpecWQLapse == Init /\ [][NextWQLapse]_vars
SpecWQCap == Init /\ [][NextWQCap]_vars

SpecWQ == Init /\ [][NextWQ]_vars

SpecJD == Init /\ [][NextJD]_vars
SpecJDCalls == Init /\ [][NextJDCalls]_vars
SpecJDSeq == Init /\ [][NextJDSeq]_vars
SpecOB == Init /\ [][NextOB]_vars
SpecOBJobs == Init /\ [][NextOBJobs]_vars
SpecOBPair == Init /\ [][NextOBPair]_vars
SpecOBSeq == Init /\ [][NextOBSeq]_vars
SpecOBFirst == Init /\ [][NextOBFirst]_vars
SpecOBCrash == Init /\ [][NextOBCrash]_vars
SpecFP == Init /\ [][NextFP]_vars
SpecFPOne == Init /\ [][NextFPOne]_vars
SpecFPRounds == Init /\ [][NextFPRounds]_vars
SpecINCrash == Init /\ [][NextINCrash]_vars /\ FairINCrash
SpecIN == Init /\ [][NextIN]_vars
SpecWQLive ==
  Init /\ [][NextWQLive]_vars /\ WF_vars(Tick) /\ WF_vars(RequeueExpiredRunning)
====
